---------------------------- MODULE Spec2Model ----------------------------
(***************************************************************************)
(* Model of the WGSL kernel of src/constants.ts (fs_main and the functions *)
(* it calls).  f32 values are fixed-point integers with ONE = 1.0, so      *)
(* EPSILON = 0.0001 is 100.  Arithmetic rounds to the nearest 1/ONE, the   *)
(* WGSL built-ins sin, cos, exp, pow and sqrt are computed by series and   *)
(* by integer square roots to that resolution.  IEEE overflow, infinities  *)
(* and NaN are outside the model: every input set keeps the values finite. *)
(***************************************************************************)
EXTENDS Integers, Sequences, FiniteSets, TLC

VARIABLES
    u,      \* the parameter block (struct Uniforms) of the frame
    uv,     \* the fragment's interpolated UV
    pc,     \* the position of the invocation in fs_main
    rm,     \* the frame of the running raymarch call
    fs,     \* the locals of fs_main
    aof,    \* the frame of the running getAO call
    sh,     \* the frame of the running getShadow call
    gl,     \* the frame of the running getGlow call
    li,     \* the frame of a renderPBR call stepped light by light
    out,    \* the colour fs_main returns, with the stages of its post-processing
    seen,   \* the colours earlier invocations returned, with their inputs
    fold,   \* the KIFS loop of sdFractal when it is stepped on its own
    clock,  \* performance.now() of the host, in milliseconds
    ui,     \* what the page holds: canvas size, camera, mouse, audio, capture request
    rec,    \* the recording refs of the renderer component
    frame,  \* the locals of the last render call that wrote the parameter block
    uniformData,    \* the Float32Array of the last device.queue.writeBuffer
    comp,   \* the component: mounted, its shaderCode prop, where initWebGPU stands
    refs,   \* deviceRef, contextRef, ... bindGroupRef
    gpu,    \* the GPU objects created so far, by kind, and the devices destroyed
    compiles        \* the calls of compilePipeline that are waiting

kernelVars == <<u, uv, pc, rm, fs, aof, sh, gl, li, out, seen, fold>>
frameVars == <<clock, ui, rec, frame, uniformData>>
mountVars == <<comp, refs, gpu, compiles>>
hostVars == <<frameVars, mountVars>>
vars == <<kernelVars, hostVars>>

\* ------------------------------------------------------------ fixed point
\* F(x) with x evaluated before F is entered (call by value)
Eval(F(_), x) == CHOOSE r \in {F(v) : v \in {x}} : TRUE

KILO == 10 * 10 * 10
ONE == KILO * KILO
HALF == ONE \div 2

Abs(x) == IF x < 0 THEN -x ELSE x
Min(a, b) == IF a < b THEN a ELSE b
Max(a, b) == IF a > b THEN a ELSE b
Sign(x) == IF x < 0 THEN -1 ELSE 1

\* clamp(e, low, high) = min(max(e, low), high)
Clamp(x, lo, hi) == Min(Max(x, lo), hi)

\* a * b, rounded to the nearest 1/ONE; the partial products stay in 32 bits
Mul(a, b) ==
    LET ah == a \div KILO
        al == a % KILO
        bh == b \div KILO
        bl == b % KILO
    IN  ah * bh + ((ah * bl + al * bh + ((al * bl + 500) \div KILO)) \div KILO)

RECURSIVE DigitDiv(_, _, _, _)
\* n decimal digits of r / b for 0 <= r < b
DigitDiv(r, b, n, acc) ==
    IF n = 0 THEN acc
    ELSE DigitDiv((r * 10) % b, b, n - 1, acc * 10 + ((r * 10) \div b))

RECURSIVE DivPos(_, _)
DivPos(a, b) ==
    IF b > 200000000 THEN DivPos(a \div 16, b \div 16)
    ELSE (a \div b) * ONE + DigitDiv(a % b, b, 6, 0)

\* a / b, truncated toward zero; b # 0
Div(a, b) == Sign(a) * Sign(b) * DivPos(Abs(a), Abs(b))

Floor(x) == x - (x % ONE)
Fract(x) == x % ONE

RECURSIVE ISqrtIter(_, _)
ISqrtIter(n, x) ==
    LET y == (x + (n \div x)) \div 2
    IN  IF y >= x THEN x ELSE ISqrtIter(n, y)

\* floor of the integer square root
ISqrt(n) ==
    IF n <= 0 THEN 0
    ELSE IF n < 100 THEN ISqrtIter(n, 10)
    ELSE IF n < 10000 THEN ISqrtIter(n, 100)
    ELSE IF n < 1000000 THEN ISqrtIter(n, 1000)
    ELSE IF n < 100000000 THEN ISqrtIter(n, 10000)
    ELSE ISqrtIter(n, 46341)

\* one Newton step towards sqrt(x) from the estimate r
Newton(x, r) == (r + Div(x, r)) \div 2

\* sqrt(x) for a fixed-point x >= 0: an integer root, then two Newton steps
SqrtOf(x) ==
    IF x <= 0 THEN 0
    ELSE IF x <= 2000 THEN ISqrt(x * ONE)
    ELSE Newton(x, Newton(x, ISqrt(x) * KILO))

Sqrt(x) == Eval(LAMBDA v : SqrtOf(v), x)

PI == 3141593
TWO_PI == 2 * PI
HALF_PI == PI \div 2

\* the Taylor series of sin up to x^11, from x and its powers
SinSeries(x, x3, x5, x7, x9, x11) ==
    x - (x3 \div 6) + (x5 \div 120) - (x7 \div 5040) + (x9 \div 362880)
      - (x11 \div 39916800)

SinPowers(x, x2, x3) ==
    SinSeries(x, x3, Mul(x3, x2), Mul(Mul(x3, x2), x2),
              Mul(Mul(Mul(x3, x2), x2), x2),
              Mul(Mul(Mul(Mul(x3, x2), x2), x2), x2))

SinSquare(x, x2) == SinPowers(x, x2, Mul(x2, x))

\* sin on [-pi/2, pi/2]
SinCore(x) == SinSquare(x, Mul(x, x))

SinReduced(r) ==
    IF r <= HALF_PI THEN SinCore(r)
    ELSE IF r <= PI + HALF_PI THEN SinCore(PI - r)
    ELSE SinCore(r - TWO_PI)

Sin(x) == Clamp(SinReduced(x % TWO_PI), -ONE, ONE)

Cos(x) == Sin(x + HALF_PI)

\* e^z for 0 <= z <= 1 by its Taylor series up to z^9, in Horner form
ExpCore(z) ==
    ONE + Mul(z, ONE + Mul(z \div 2, ONE + Mul(z \div 3, ONE + Mul(z \div 4,
          ONE + Mul(z \div 5, ONE + Mul(z \div 6, ONE + Mul(z \div 7,
          ONE + Mul(z \div 8, ONE + (z \div 9)))))))))

RECURSIVE Pow2Int(_)
Pow2Int(n) == IF n = 0 THEN 1 ELSE 2 * Pow2Int(n - 1)

\* m * 2^n for a mantissa m in [1, 2]
Exp2Shift(m, n) ==
    IF n >= 0 THEN m * Pow2Int(n)
    ELSE IF n < -30 THEN 0
    ELSE (m + (Pow2Int(-n) \div 2)) \div Pow2Int(-n)

\* 2^y: the integer part shifts, the fractional part goes through ExpCore
\* (693147 is ln 2)
Exp2(y) == Exp2Shift(ExpCore(Mul(y % ONE, 693147)), y \div ONE)

\* the atanh series of ln up to s^11, in Horner form
LnSeries(s, s2) ==
    2 * Mul(s, ONE + Mul(s2, 333333 + Mul(s2, 200000 + Mul(s2, 142857
          + Mul(s2, 111111 + Mul(s2, 90909))))))

LnRatio(s) == LnSeries(s, Mul(s, s))

\* ln(m) for ONE <= m < 2*ONE
LnCore(m) == LnRatio(Div(m - ONE, m + ONE))

RECURSIVE Log2Norm(_, _)
\* log2(x) for x > 0: halve or double x into [1, 2), counting the exponent e
Log2Norm(x, e) ==
    IF x >= 2 * ONE THEN Log2Norm(x \div 2, e + 1)
    ELSE IF x < ONE THEN Log2Norm(x * 2, e - 1)
    ELSE e * ONE + Div(LnCore(x), 693147)

Log2(x) == Log2Norm(x, 0)

\* exp(x) = 2^(x / ln 2)
Exp(x) == Exp2(Div(x, 693147))

\* pow(x, y) = exp2(y * log2(x)) for x > 0; a base of 0 gives 0 for y > 0
Pow(x, y) ==
    IF x <= 0 THEN (IF y = 0 THEN ONE ELSE 0)
    ELSE Exp2(Mul(y, Log2(x)))

RECURSIVE PowInt(_, _)
\* x^n for a natural n by repeated multiplication
PowInt(x, n) == IF n = 0 THEN ONE ELSE Mul(x, PowInt(x, n - 1))

\* mix(a, b, t) = a * (1 - t) + b * t
Mix(a, b, t) == Mul(a, ONE - t) + Mul(b, t)

SmoothPoly(t) == Mul(Mul(t, t), 3 * ONE - 2 * t)

\* smoothstep(low, high, x)
Smoothstep(e0, e1, x) == SmoothPoly(Clamp(Div(x - e0, e1 - e0), 0, ONE))

\* ---------------------------------------------------------------- vectors
V3(x, y, z) == <<x, y, z>>
VAdd(a, b) == <<a[1] + b[1], a[2] + b[2], a[3] + b[3]>>
VSub(a, b) == <<a[1] - b[1], a[2] - b[2], a[3] - b[3]>>
VNeg(a) == <<-a[1], -a[2], -a[3]>>
VScale(a, s) == <<Mul(a[1], s), Mul(a[2], s), Mul(a[3], s)>>
VMul(a, b) == <<Mul(a[1], b[1]), Mul(a[2], b[2]), Mul(a[3], b[3])>>
VDiv(a, s) == <<Div(a[1], s), Div(a[2], s), Div(a[3], s)>>
VAddS(a, s) == <<a[1] + s, a[2] + s, a[3] + s>>
VAbs(a) == <<Abs(a[1]), Abs(a[2]), Abs(a[3])>>
VMix(a, b, t) == <<Mix(a[1], b[1], t), Mix(a[2], b[2], t), Mix(a[3], b[3], t)>>
VMixV(a, b, t) == <<Mix(a[1], b[1], t[1]), Mix(a[2], b[2], t[2]), Mix(a[3], b[3], t[3])>>
Dot(a, b) == Mul(a[1], b[1]) + Mul(a[2], b[2]) + Mul(a[3], b[3])
Cross(a, b) ==
    <<Mul(a[2], b[3]) - Mul(a[3], b[2]),
      Mul(a[3], b[1]) - Mul(a[1], b[3]),
      Mul(a[1], b[2]) - Mul(a[2], b[1])>>

MaxAbs(a) == Max(Abs(a[1]), Max(Abs(a[2]), Abs(a[3])))

RECURSIVE Length(_)
\* length of a vector whose largest component is m; the vector is first
\* scaled into the range where its squares keep their digits, as a float
\* exponent would
LengthScaled(a, m) ==
    IF m = 0 THEN 0
    ELSE IF m > 20 * ONE
    THEN 8 * Length(<<a[1] \div 8, a[2] \div 8, a[3] \div 8>>)
    ELSE IF m < ONE
    THEN (Length(<<a[1] * 64, a[2] * 64, a[3] * 64>>) + 32) \div 64
    ELSE SqrtOf(Dot(a, a))

\* length(v)
Length(a) == Eval(LAMBDA v : LengthScaled(v, MaxAbs(v)), a)

RECURSIVE Normalize(_)
\* the zero vector has no direction and is left as it is
NormalizeScaled(a, m) ==
    IF m = 0 THEN a
    ELSE IF m > 20 * ONE
    THEN Normalize(<<a[1] \div 8, a[2] \div 8, a[3] \div 8>>)
    ELSE IF m < ONE
    THEN Normalize(<<a[1] * 64, a[2] * 64, a[3] * 64>>)
    ELSE VDiv(a, SqrtOf(Dot(a, a)))

\* normalize(v)
Normalize(a) == Eval(LAMBDA v : NormalizeScaled(v, MaxAbs(v)), a)

\* reflect(e1, e2) = e1 - 2 * dot(e2, e1) * e2
Reflect(i, n) == VSub(i, VScale(n, 2 * Dot(n, i)))

\* -------------------------------------------------------------- constants
EPSILON == 100

\* ------------------------------------------------------------------ utils
\* the rotation matrix applied to p, built column by column from the unit
\* axis a, s = sin(angle) and c = cos(angle)
rotateBy(p, a, s, c) ==
    LET r == ONE - c
    IN  VAdd(VAdd(VScale(<<Mul(Mul(a[1], a[1]), r) + c,
                           Mul(Mul(a[2], a[1]), r) - Mul(a[3], s),
                           Mul(Mul(a[3], a[1]), r) + Mul(a[2], s)>>, p[1]),
                  VScale(<<Mul(Mul(a[1], a[2]), r) + Mul(a[3], s),
                           Mul(Mul(a[2], a[2]), r) + c,
                           Mul(Mul(a[3], a[2]), r) - Mul(a[1], s)>>, p[2])),
             VScale(<<Mul(Mul(a[1], a[3]), r) - Mul(a[2], s),
                      Mul(Mul(a[2], a[3]), r) + Mul(a[1], s),
                      Mul(Mul(a[3], a[3]), r) + c>>, p[3]))

rotate(p, angle, axis) ==
    Eval(LAMBDA a : rotateBy(p, a, Sin(angle), Cos(angle)), Normalize(axis))

\* the mixing of hash(p) once p3 = fract(p * 0.1031) is known; 19.19 is the
\* source's constant
hashMix(p3) ==
    Fract(Mul(p3[1] + p3[2], p3[3])
          + Dot(p3, <<p3[2] + 19190000, p3[3] + 19190000, p3[1] + 19190000>>))

hash(p) ==
    hashMix(<<Fract(Mul(p[1], 103100)), Fract(Mul(p[2], 103100)),
              Fract(Mul(p[3], 103100))>>)

\* the trilinear blend of noise(p) over the lattice cell i with weights w
noiseBlend(i, w) ==
    Mix(Mix(Mix(hash(VAdd(i, <<0, 0, 0>>)), hash(VAdd(i, <<ONE, 0, 0>>)), w[1]),
            Mix(hash(VAdd(i, <<0, ONE, 0>>)), hash(VAdd(i, <<ONE, ONE, 0>>)), w[1]),
            w[2]),
        Mix(Mix(hash(VAdd(i, <<0, 0, ONE>>)), hash(VAdd(i, <<ONE, 0, ONE>>)), w[1]),
            Mix(hash(VAdd(i, <<0, ONE, ONE>>)), hash(VAdd(i, <<ONE, ONE, ONE>>)), w[1]),
            w[2]),
        w[3])

noise(p) ==
    noiseBlend(<<Floor(p[1]), Floor(p[2]), Floor(p[3])>>,
               <<SmoothPoly(Fract(p[1])), SmoothPoly(Fract(p[2])),
                 SmoothPoly(Fract(p[3]))>>)

RECURSIVE fbmLoop(_, _, _, _)
fbmLoop(pp, amp, val, i) ==
    IF i >= 4 THEN val
    ELSE fbmLoop(VScale(pp, 2020000), Mul(amp, 500000), val + Mul(amp, noise(pp)), i + 1)

\* fbm(p): 4 octaves, frequency x 2.02, amplitude x 0.5, first amplitude 0.5
fbm(p) == fbmLoop(p, 500000, 0, 0)

\* the drift of octave i of sparkNoise at time t
sparkDrift(t, i) ==
    <<Sin(Mul(t, 500000) + i * ONE), Mul(t, ONE + i * 500000),
      Cos(Mul(t, 300000) + i * 2 * ONE)>>

RECURSIVE sparkLoop(_, _, _, _, _)
sparkLoop(pp, t, amp, val, i) ==
    IF i >= 3 THEN val
    ELSE sparkLoop(VAdd(VScale(pp, 2100000), <<4030000, 1200000, 9100000>>),
                   t, Mul(amp, 500000),
                   val + Mul(amp, Abs(noise(VAdd(pp, sparkDrift(t, i))) - 500000)),
                   i + 1)

\* sparkNoise(p, t) = 1 - 1.5 * sum of the ridged octaves
sparkNoise(p, t) == ONE - Mul(sparkLoop(p, t, ONE, 0, 0), 1500000)

\* ------------------------------------------------------- fractal geometry
\* length(max(q, 0)) + min(max(q.x, max(q.y, q.z)), 0) for q = abs(p) - b
sdBoxOf(q) ==
    Length(<<Max(q[1], 0), Max(q[2], 0), Max(q[3], 0)>>)
      + Min(Max(q[1], Max(q[2], q[3])), 0)

sdBox(p, b) == sdBoxOf(VSub(VAbs(p), b))

\* the three conditional swaps of one fold iteration
foldSwapXY(z) == IF z[1] < z[2] THEN <<z[2], z[1], z[3]>> ELSE z
foldSwapXZ(z) == IF z[1] < z[3] THEN <<z[3], z[2], z[1]>> ELSE z
foldSwapYZ(z) == IF z[2] < z[3] THEN <<z[1], z[3], z[2]>> ELSE z

foldSortTwoSwaps(z0) == foldSwapXZ(foldSwapXY(VAbs(z0)))

\* z = abs(z) and the swaps
foldSort(z0) == foldSwapYZ(foldSwapXZ(foldSwapXY(VAbs(z0))))

FOLD_ITER == 4

\* z = z * 2.0 - 1.2 * (detail * 0.5 + 0.5)
foldAffine(ub, z) ==
    VAddS(VScale(z, 2 * ONE), -Mul(1200000, Mul(ub.detail, 500000) + 500000))

\* z.z += sin(z.x * 2.0 + time) * warp * 0.05, warp = audio.y * 0.2
foldWarp(ub, z) ==
    <<z[1], z[2],
      z[3] + Mul(Mul(Sin(Mul(z[1], 2 * ONE) + ub.time), Mul(ub.audio[2], 200000)),
                 50000)>>

foldNext(st, z) ==
    [z |-> z, scale |-> st.scale * 2, trap |-> Min(st.trap, Length(z))]

\* one iteration of the KIFS loop on the record [z, scale, trap]
foldStep(ub, st) ==
    Eval(LAMBDA z : foldNext(st, z), foldWarp(ub, foldAffine(ub, foldSort(st.z))))

RECURSIVE foldLoop(_, _, _)
\* the KIFS loop of sdFractal
foldLoop(ub, st, i) ==
    IF i >= FOLD_ITER THEN st
    ELSE Eval(LAMBDA s : foldLoop(ub, s, i + 1), foldStep(ub, st))

\* the KIFS loop by steps: st is [z, scale, trap], i counts the passes, ins and
\* sorts list z as each pass found it and as its abs and swaps left it
NoFold == [st |-> [z |-> <<0, 0, 0>>, scale |-> 1, trap |-> 0], i |-> 0,
           ins |-> <<>>, sorts |-> <<>>]

\* var scale = 1.0; var trap = 1000.0; i = 0
foldEnter(z) ==
    [st |-> [z |-> z, scale |-> 1, trap |-> 1000 * ONE], i |-> 0,
     ins |-> <<>>, sorts |-> <<>>]

foldLoops(f) == f.i < FOLD_ITER

foldIter(ub, f) ==
    [st |-> foldStep(ub, f.st), i |-> f.i + 1,
     ins |-> Append(f.ins, f.st.z), sorts |-> Append(f.sorts, foldSort(f.st.z))]

\* max(boxDist, sphereDist) of the folded point
fractalDist(st) ==
    Max(sdBox(st.z, <<1200000, 1200000, 4000000>>) \div st.scale,
        (Length(st.z) - 2500000) \div st.scale)

\* the two rotations of the fractal's domain
fractalDomain(ub, p) ==
    Eval(LAMBDA z : rotate(z, Mul(Mul(ub.time, ub.animSpeed), 20000), <<ONE, 0, ONE>>),
         rotate(p, Mul(Mul(ub.time, ub.animSpeed), 50000), <<0, ONE, 0>>))

sdFractal(ub, p) ==
    Eval(LAMBDA st : fractalDist(st),
         Eval(LAMBDA z : foldLoop(ub, [z |-> z, scale |-> 1, trap |-> 1000 * ONE], 0),
              fractalDomain(ub, p)))

FRACTAL == ONE
FLOOR == 2 * ONE
MISS == -ONE

\* the comparison of map with a tie sent to the fractal
mapNearestTieToFractal(finalObj, floorDist) ==
    IF finalObj <= floorDist THEN <<finalObj, FRACTAL>> ELSE <<floorDist, FLOOR>>

\* the comparison of map: <<distance, material id>>
mapNearest(finalObj, floorDist) ==
    IF finalObj < floorDist THEN <<finalObj, FRACTAL>> ELSE <<floorDist, FLOOR>>

\* map(p): the floor is at height -2.2
map(ub, p) == mapNearest(sdFractal(ub, p) - 10000, p[2] - (-2200000))


\* ---------------------------------------------------------------- raymarch
RAYMARCH_ITERS == 160
FAR == 30 * ONE

\* the mutants of the raymarch claims: the body advancing t before it tests the
\* sample, the result clamped to the far bound, the body without its far break
raymarchIterAdvanceFirst(f, h) ==
    IF h[1] < EPSILON
    THEN [f EXCEPT !.t = @ + Mul(h[1], 700000), !.m = h[2], !.hit = TRUE, !.brk = TRUE]
    ELSE IF f.t > FAR
    THEN [f EXCEPT !.brk = TRUE]
    ELSE [f EXCEPT !.t = @ + Mul(h[1], 700000), !.i = @ + 1]

raymarchResultClamped(f) ==
    IF f.hit THEN <<f.t, f.m, ONE>> ELSE <<Min(f.t, FAR), -ONE, 0>>

raymarchIterNoFar(f, h) ==
    IF h[1] < EPSILON
    THEN [f EXCEPT !.m = h[2], !.hit = TRUE, !.brk = TRUE]
    ELSE [f EXCEPT !.t = @ + Mul(h[1], 700000), !.i = @ + 1]

\* the body of the loop of raymarch for the sample h = map(ro + rd * t); f holds
\* the locals t, m, hit, the counter i and brk, set when the body ran a break
raymarchIter(f, h) ==
    IF h[1] < EPSILON
    THEN [f EXCEPT !.m = h[2], !.hit = TRUE, !.brk = TRUE]
    ELSE IF f.t > FAR
    THEN [f EXCEPT !.brk = TRUE]
    ELSE [f EXCEPT !.t = @ + Mul(h[1], 700000), !.i = @ + 1]

\* the loop goes on while i < 160 and no break ran
raymarchLoops(f) == f.i < RAYMARCH_ITERS /\ ~f.brk

\* the value raymarch returns: vec3f(t, m, 1.0) or vec3f(t, -1.0, 0.0)
raymarchResult(f) ==
    IF f.hit THEN <<f.t, f.m, ONE>> ELSE <<f.t, -ONE, 0>>

\* the locals of raymarch as it enters its loop
raymarchEnter(ro, rd, caller) ==
    [caller |-> caller, ro |-> ro, rd |-> rd,
     f |-> [t |-> 0, m |-> -ONE, hit |-> FALSE, i |-> 0, brk |-> FALSE],
     evals |-> 0, below |-> FALSE, beyond |-> 0,
     last |-> [t |-> 0, pos |-> ro, d |-> 0, id |-> 0],
     done |-> FALSE, res |-> <<0, 0, 0>>]

NoRaymarch == raymarchEnter(<<0, 0, 0>>, <<0, 0, 0>>, "none")

\* where fs_main goes on when a raymarch call returns
AfterRaymarch(caller) ==
    CASE caller = "primary" -> "shade"
      [] caller = "reflect" -> "reflected"
      [] OTHER -> "returned"

\* One iteration of the loop of raymarch at the sample pos, where map gave h;
\* evals, below, beyond and last record the samples evaluated so far, res is the
\* returned vector once done.
RaymarchSample(pos, h) ==
    LET g == raymarchIter(rm.f, h)
        fin == ~raymarchLoops(g)
    IN  /\ rm' = [rm EXCEPT !.f = g,
                            !.evals = @ + 1,
                            !.below = @ \/ h[1] < EPSILON,
                            !.beyond = @ + (IF rm.f.t > 30 * ONE THEN 1 ELSE 0),
                            !.last = [t |-> rm.f.t, pos |-> pos, d |-> h[1], id |-> h[2]],
                            !.done = fin,
                            !.res = IF fin THEN raymarchResult(g) ELSE @]
        /\ pc' = IF fin THEN AfterRaymarch(rm.caller) ELSE pc

RaymarchAt(pos) == RaymarchSample(pos, map(u, pos))

RaymarchStep ==
    /\ pc = "raymarch"
    /\ raymarchLoops(rm.f)
    /\ RaymarchAt(VAdd(rm.ro, VScale(rm.rd, rm.f.t)))
    /\ UNCHANGED <<hostVars, seen, fold, u, uv, fs, aof, sh, gl, li, out>>

\* ------------------------------------------------------- surface probes
\* calcNormal(p): central differences of map over EPSILON
calcNormal(ub, p) ==
    Normalize(<<map(ub, VAdd(p, <<EPSILON, 0, 0>>))[1] - map(ub, VSub(p, <<EPSILON, 0, 0>>))[1],
                map(ub, VAdd(p, <<0, EPSILON, 0>>))[1] - map(ub, VSub(p, <<0, EPSILON, 0>>))[1],
                map(ub, VAdd(p, <<0, 0, EPSILON>>))[1] - map(ub, VSub(p, <<0, 0, EPSILON>>))[1]>>)

AO_ITERS == 5

\* h of iteration i of getAO: 0.01 + 0.12 * i / 4
aoHeight(i) == 10000 + ((120000 * i) \div 4)

\* the locals of getAO as it enters its loop
aoEnter(p, n) == [p |-> p, n |-> n, occ |-> 0, sca |-> ONE, i |-> 0, evals |-> 0]

\* the body of the loop of getAO for d = map(p + h * n).x
aoIter(f, d) ==
    [f EXCEPT !.occ = @ + Mul(aoHeight(f.i) - d, f.sca),
              !.sca = Mul(@, 950000),
              !.i = @ + 1,
              !.evals = @ + 1]

\* the loop test of getAO with the bound included
aoLoopsInclusive(f) == f.i <= AO_ITERS

\* the loop test of getAO
aoLoops(f) == f.i < AO_ITERS

\* the value getAO would return without the clamp of its occlusion term
aoResultUnclamped(f) == Mul(ONE - 3 * f.occ, HALF + Mul(HALF, f.n[2]))

\* the value getAO returns
aoResult(f) == Mul(Clamp(ONE - 3 * f.occ, 0, ONE), HALF + Mul(HALF, f.n[2]))

SHADOW_ITERS == 32

\* the locals of getShadow as it enters its loop; tmin is kept beside t
shadowEnter(ro, rd, tmin, tmax, k) ==
    [ro |-> ro, rd |-> rd, tmin |-> tmin, tmax |-> tmax, k |-> k, res |-> ONE,
     t |-> tmin, i |-> 0, brk |-> FALSE, evals |-> 0]

\* the end of the loop body of getShadow, once res and t are updated
shadowBreak(f) ==
    [f EXCEPT !.brk = (f.res < 1000 \/ f.t > f.tmax), !.i = @ + 1, !.evals = @ + 1]

\* the loop body with t advanced by h itself
shadowWithRawStep(f, h, q) ==
    shadowBreak([f EXCEPT !.res = Min(@, q), !.t = @ + h])

\* the body of the loop of getShadow for h = map(ro + rd * t).x and the
\* quotient q = k * h / t
shadowWith(f, h, q) ==
    shadowBreak([f EXCEPT !.res = Min(@, q), !.t = @ + Clamp(h, 2000, 200000)])

\* the loop body where t # 0
shadowIter(f, h) == shadowWith(f, h, Div(Mul(f.k, h), f.t))

\* values the quotient k * h / 0 may take: WGSL leaves the result of a float
\* division by zero indeterminate
Indeterminate == {-2000 * ONE, -ONE, 0, HALF, 2000 * ONE}

shadowLoops(f) == f.i < SHADOW_ITERS /\ ~f.brk

\* the value getShadow returns
shadowResult(f) == Clamp(f.res, 0, ONE)

\* ------------------------------------------------------------- PBR math
\* max(PI * denom * denom, 0.00001), the divisor of distributionGGX
ggxDen(d) == Max(Mul(Mul(PI, d), d), 10)

ggxRatio(a2, d) == Div(a2, ggxDen(d))

\* NdotH2 * (a2 - 1.0) + 1.0
ggxDenom(a2, NdotH) == Mul(Mul(NdotH, NdotH), a2 - ONE) + ONE

ggxOf(a2, NdotH) == ggxRatio(a2, ggxDenom(a2, NdotH))

distributionGGX(N, H, roughness) ==
    ggxOf(Mul(Mul(roughness, roughness), Mul(roughness, roughness)), Max(Dot(N, H), 0))

\* max(NdotV * (1.0 - k) + k, 0.00001), the divisor of geometrySchlickGGX
schlickDen(NdotV, k) == Max(Mul(NdotV, ONE - k) + k, 10)

schlickRatio(NdotV, k) == Div(NdotV, schlickDen(NdotV, k))

\* k = (r * r) / 8.0 for r = roughness + 1.0
schlickK(roughness) == Mul(roughness + ONE, roughness + ONE) \div 8

geometrySchlickGGX(NdotV, roughness) ==
    schlickRatio(NdotV, schlickK(roughness))

geometrySmith(N, V, L, roughness) ==
    Mul(geometrySchlickGGX(Max(Dot(N, L), 0), roughness),
        geometrySchlickGGX(Max(Dot(N, V), 0), roughness))

\* F0 + (1 - F0) * w for w = pow(clamp(1 - cosTheta, 0, 1), 5)
fresnelWeight(F0, w) ==
    <<F0[1] + Mul(ONE - F0[1], w), F0[2] + Mul(ONE - F0[2], w), F0[3] + Mul(ONE - F0[3], w)>>

fresnelSchlick(cosTheta, F0) ==
    fresnelWeight(F0, PowInt(Clamp(ONE - cosTheta, 0, ONE), 5))

\* the key and rim terms of getSky for the two cosines
skyLights(kSpec, rSpec) ==
    VAddS(VScale(<<2 * ONE, 2100000, 2300000>>, 4 * Smoothstep(900000, 990000, kSpec)),
          2 * Mul(3 * ONE, Pow(rSpec, 100 * ONE)))

getSky(rd) ==
    VAdd(VMix(<<10000, 15000, 20000>>, <<50000, 50000, 60000>>, Mul(rd[2], HALF) + HALF),
         skyLights(Max(Dot(rd, Normalize(<<-500000, 800000, 500000>>)), 0),
                   Max(Dot(rd, Normalize(<<0, 500000, -ONE>>)), 0)))

\* ------------------------------------------------------------- renderPBR
\* lights[i] (position and power) and lCols[i]
LIGHTS ==
    <<[pos |-> <<-2 * ONE, 5 * ONE, 3 * ONE>>, power |-> 10 * ONE,
       col |-> <<ONE, 950000, 900000>>],
      [pos |-> <<5 * ONE, 2 * ONE, -3 * ONE>>, power |-> 5 * ONE,
       col |-> <<800000, 850000, ONE>>],
      [pos |-> <<0, 4 * ONE, -5 * ONE>>, power |-> 8 * ONE,
       col |-> <<ONE, ONE, ONE>>]>>

\* Lvector, dist and L of light i seen from p
lightVector(i, p) == VSub(LIGHTS[i].pos, p)
lightDist(i, p) == Length(lightVector(i, p))
lightDir(i, p) == Normalize(lightVector(i, p))

\* dist * dist, the divisor of the attenuation
attenuationDen(dist) == Mul(dist, dist)

\* radiance = lCol * lPower * attenuation, attenuation = 1 / (dist * dist)
lightRadiance(i, dist) ==
    VScale(VScale(LIGHTS[i].col, LIGHTS[i].power), Div(ONE, attenuationDen(dist)))

\* kD * baseColor / PI + specular, from F, NDF * G and den
brdfSum(F, dg, den, baseColor, metallic) ==
    VAdd(VDiv(VMul(VScale(VSub(<<ONE, ONE, ONE>>, F), ONE - metallic), baseColor), PI),
         VDiv(VScale(F, dg), den))

\* den = 4 max(dot(n, v), 0) max(dot(n, L), 0) + 0.0001, the divisor of specular
specularDen(n, v, L) == 4 * Mul(Max(Dot(n, v), 0), Max(Dot(n, L), 0)) + 100

brdf(n, v, L, H, baseColor, metallic, roughness, F0) ==
    brdfSum(fresnelSchlick(Max(Dot(H, v), 0), F0),
            Mul(distributionGGX(n, H, roughness), geometrySmith(n, v, L, roughness)),
            specularDen(n, v, L),
            baseColor, metallic)

\* what light i adds to Lo when it arrives along L with the given shadow
lightAlong(i, p, n, v, L, baseColor, metallic, roughness, F0, shadow) ==
    VScale(VScale(VMul(brdf(n, v, L, Normalize(VAdd(v, L)), baseColor, metallic,
                            roughness, F0),
                       lightRadiance(i, lightDist(i, p))),
                  Max(Dot(n, L), 0)),
           shadow)

lightAdds(i, p, n, v, baseColor, metallic, roughness, F0, shadow) ==
    Eval(LAMBDA L : lightAlong(i, p, n, v, L, baseColor, metallic, roughness, F0, shadow),
         lightDir(i, p))

\* the image-based term: (kD * diffuse + specIBL * kS) * ao
ambientSum(kS, n, v, baseColor, metallic, roughness, ao) ==
    VScale(VAdd(VMul(VScale(VSub(<<ONE, ONE, ONE>>, kS), ONE - metallic),
                     VMul(VScale(getSky(n), 150000), baseColor)),
                VMul(VScale(getSky(Reflect(VNeg(v), n)), ONE - roughness), kS)),
           ao)

ambient(n, v, baseColor, metallic, roughness, ao, F0) ==
    ambientSum(fresnelSchlick(Max(Dot(n, v), 0), F0), n, v, baseColor, metallic,
               roughness, ao)

\* Lo + ambient for the given F0; only light 0 is shadowed
renderLit(p, n, v, baseColor, metallic, roughness, ao, F0, shadow) ==
    VAdd(VAdd(VAdd(lightAdds(1, p, n, v, baseColor, metallic, roughness, F0, shadow),
                   lightAdds(2, p, n, v, baseColor, metallic, roughness, F0, ONE)),
              lightAdds(3, p, n, v, baseColor, metallic, roughness, F0, ONE)),
         ambient(n, v, baseColor, metallic, roughness, ao, F0))

\* renderPBR, with the value its call of getShadow returned
renderPBR(p, n, v, baseColor, metallic, roughness, ao, shadow) ==
    renderLit(p, n, v, baseColor, metallic, roughness, ao,
              VMix(<<40000, 40000, 40000>>, baseColor, metallic), shadow)

\* the light loop of renderPBR, one light per step
\* the divisors of the divisions one iteration performs
lightDens(n, v, L, roughness, dist) ==
    [ggx |-> ggxDen(ggxDenom(Mul(Mul(roughness, roughness), Mul(roughness, roughness)),
                             Max(Dot(n, Normalize(VAdd(v, L))), 0))),
     schlickV |-> schlickDen(Max(Dot(n, v), 0), schlickK(roughness)),
     schlickL |-> schlickDen(Max(Dot(n, L), 0), schlickK(roughness)),
     specular |-> specularDen(n, v, L),
     attenuation |-> attenuationDen(dist)]

NoLight ==
    [p |-> <<0, 0, 0>>, n |-> <<0, 0, 0>>, v |-> <<0, 0, 0>>, baseColor |-> <<0, 0, 0>>,
     metallic |-> 0, roughness |-> 0, shadow |-> 0, F0 |-> <<0, 0, 0>>, i |-> 0,
     Lo |-> <<0, 0, 0>>, dens |-> <<>>, casts |-> <<>>]

\* F0 = mix(vec3f(0.04), baseColor, metallic); Lo = vec3f(0.0); i = 0
lightEnter(p, n, v, baseColor, metallic, roughness, shadow) ==
    [p |-> p, n |-> n, v |-> v, baseColor |-> baseColor, metallic |-> metallic,
     roughness |-> roughness, shadow |-> shadow,
     F0 |-> VMix(<<40000, 40000, 40000>>, baseColor, metallic), i |-> 1,
     Lo |-> <<0, 0, 0>>, dens |-> <<>>, casts |-> <<>>]

lightLoops(f) == f.i >= 1 /\ f.i <= 3

\* if(i == 0): the pass that calls getShadow
lightMarches(f) == f.i = 1

lightShadowAll(f) == f.shadow

\* var shadow = 1.0; if(i == 0) { shadow = getShadow(...) }, f.shadow being the
\* value getShadow returns
lightShadow(f) == IF lightMarches(f) THEN f.shadow ELSE ONE

\* one iteration, for the direction L and the term it adds to Lo; casts lists,
\* pass by pass, whether getShadow was called and the shadow factor used
lightIterWith(f, L, adds) ==
    [f EXCEPT !.Lo = VAdd(@, adds),
              !.casts = Append(@, [marched |-> lightMarches(f),
                                   shadow |-> lightShadow(f)]),
              !.dens = Append(@, lightDens(f.n, f.v, L, f.roughness, lightDist(f.i, f.p))),
              !.i = @ + 1]

lightIter(f) ==
    lightIterWith(f, lightDir(f.i, f.p),
                  lightAdds(f.i, f.p, f.n, f.v, f.baseColor, f.metallic, f.roughness,
                            f.F0, lightShadow(f)))

\* normalize of the zero vector and 1.0 / 0.0 have indeterminate values
IndeterminateDir == {<<0, 0, 0>>, <<0, ONE, 0>>, <<0, -ONE, 0>>}
IndeterminateTerm == {<<0, 0, 0>>, <<2000 * ONE, 2000 * ONE, 2000 * ONE>>, <<-ONE, -ONE, -ONE>>}

\* ------------------------------------------------------------ materials
\* 0.0003 / (arcVal^3 + 0.00001)
floorArc(arcVal) == Div(300, Mul(Mul(arcVal, arcVal), arcVal) + 10)

\* electricGlow of the floor at pos
floorGlow(ub, pos) ==
    floorArc(Abs(sparkNoise(VScale(pos, 3500000),
                            Mul(Mul(ub.time, ub.electricSpeed), 2 * ONE)) - 400000))

floorBump(pos) ==
    Normalize(<<fbm(VScale(pos, 10 * ONE)), HALF, fbm(VAddS(VScale(pos, 10 * ONE), ONE))>>)

\* the Floor branch of fs_main once f = fbm(pos * 2.0) is known
floorWith(ub, pos, nor, f) ==
    [albedo |-> VAdd(VAddS(<<50000, 50000, 50000>>, Mul(f, 20000)),
                     VScale(VScale(VScale(ub.electricColor, floorGlow(ub, pos)),
                                   ub.electricIntensity), 20000)),
     roughness |-> Mix(300000 + Mul(f, 200000), ONE,
                       ONE - Exp(Mul(-Length(<<pos[1], pos[3], 0>>), 100000))),
     metallic |-> 0,
     nor |-> Normalize(VAdd(nor, VScale(floorBump(pos), 50000)))]

floorMaterial(ub, pos, nor) ==
    Eval(LAMBDA f : floorWith(ub, pos, nor, f), fbm(VScale(pos, 2 * ONE)))

\* the Fractal branch of fs_main once curv, micro, scratches and noiseN are known
fractalWith(ub, nor, curv, micro, scratches, noiseN) ==
    [albedo |-> VMix(ub.baseColor, <<800000, 700000, 500000>>, Mul(micro, 200000)),
     roughness |-> Mix(ub.detail, 800000, curv) + Mul(scratches, 100000),
     metallic |-> Mix(ub.metallic, 0, Mul(curv, HALF)),
     nor |-> Normalize(VAdd(nor, VScale(<<noiseN, noiseN, noiseN>>, 20000)))]

fractalMaterial(ub, pos, nor, ao) ==
    fractalWith(ub, nor, Clamp(ONE - ao, 0, ONE), fbm(VScale(pos, 8 * ONE)),
                noise(VMul(VScale(pos, 50 * ONE), <<ONE, 10 * ONE, ONE>>)),
                fbm(VScale(pos, 20 * ONE)))

\* albedo, roughness, metallic and the perturbed normal of a hit of material m
material(ub, m, pos, nor, ao) ==
    IF m > 1500000 THEN floorMaterial(ub, pos, nor)
    ELSE fractalMaterial(ub, pos, nor, ao)

\* -------------------------------------------------------------- getGlow
GLOW_ITERS == 35

\* 0.0003 / (distToLine^3 + 0.000001)
arcIntensity(distToLine) ==
    Div(300, Mul(Mul(distToLine, distToLine), distToLine) + 1)

\* color * intensity * surfaceFade * branchMask * electricIntensity * 0.002
arcSum(ub, intensity, surfaceFade, branchMask) ==
    VScale(VScale(VScale(VScale(VScale(
        VMix(ub.electricColor, <<ONE, ONE, ONE>>, Smoothstep(5 * ONE, 60 * ONE, intensity)),
        intensity), surfaceFade), branchMask), ub.electricIntensity), 2000)

\* the arc colour of one sample that is not masked by its distance geoD to the surface
arcUnmasked(ub, pos, tParams, geoD) ==
    arcSum(ub,
           arcIntensity(Abs(sparkNoise(VScale(pos, 3500000), tParams) - 400000)),
           ONE,
           Smoothstep(350000, 550000,
                      noise(VAdd(VScale(pos, 4 * ONE), <<0, Mul(tParams, HALF), 0>>))))

\* what one sample at pos, at distance geoD from the fractal, adds to acc
arcAdds(ub, pos, tParams, geoD) ==
    IF geoD < 400000
    THEN arcSum(ub,
                arcIntensity(Abs(sparkNoise(VScale(pos, 3500000), tParams) - 400000)),
                Smoothstep(300000, 0, geoD),
                Smoothstep(350000, 550000,
                           noise(VAdd(VScale(pos, 4 * ONE), <<0, Mul(tParams, HALF), 0>>))))
    ELSE <<0, 0, 0>>

glowEnterStale(ub, ro, rd, maxT) ==
    [ro |-> ro, rd |-> rd,
     tParams |-> Mul(Mul(ub.time, ub.electricSpeed), 2 * ONE),
     t |-> HALF + Mul(hash(VScale(rd, ub.time)), 200000),
     tEnd |-> Min(maxT, 15 * ONE), maxT |-> maxT,
     acc |-> gl.acc, i |-> 0, brk |-> FALSE, evals |-> 0, near |-> 0]

\* the locals of getGlow as it enters its loop; near counts the samples with
\* geoD < 0.4
glowEnter(ub, ro, rd, maxT) ==
    [ro |-> ro, rd |-> rd,
     tParams |-> Mul(Mul(ub.time, ub.electricSpeed), 2 * ONE),
     t |-> HALF + Mul(hash(VScale(rd, ub.time)), 200000),
     tEnd |-> Min(maxT, 15 * ONE), maxT |-> maxT,
     acc |-> <<0, 0, 0>>, i |-> 0, brk |-> FALSE, evals |-> 0, near |-> 0]

NoGlow ==
    [ro |-> <<0, 0, 0>>, rd |-> <<0, 0, 0>>, tParams |-> 0, t |-> 0, tEnd |-> 0, maxT |-> 0,
     acc |-> <<0, 0, 0>>, i |-> 0, brk |-> FALSE, evals |-> 0, near |-> 0]

glowBreaksLate(f) == f.t > f.tEnd + 150000

glowBreaks(f) == f.t > f.tEnd

\* the loop body of getGlow past its break, for geoD = sdFractal(pos)
glowSample(ub, f, pos, geoD) ==
    [f EXCEPT !.acc = VAdd(@, arcAdds(ub, pos, f.tParams, geoD)),
              !.t = @ + 150000,
              !.i = @ + 1,
              !.evals = @ + 1,
              !.near = @ + (IF geoD < 400000 THEN 1 ELSE 0)]

glowAt(ub, f, pos) == glowSample(ub, f, pos, sdFractal(ub, pos))

\* one pass through the loop of getGlow
glowIter(ub, f) ==
    IF glowBreaks(f) THEN [f EXCEPT !.brk = TRUE]
    ELSE glowAt(ub, f, VAdd(f.ro, VScale(f.rd, f.t)))

glowLoops(f) == f.i < GLOW_ITERS /\ ~f.brk

\* --------------------------------------------------------------- camera
\* fract(s * k) for a factor k = kInt + kFrac too large to multiply in one step
FractMul(s, kInt, kFrac) ==
    ((((s * (kInt \div KILO)) % KILO) * KILO) + ((s * (kInt % KILO)) % ONE)
     + Mul(s, kFrac)) % ONE

aaSamplesAlwaysTwo(ub) == 2

aaSamples(ub) == IF ub.isRendering > HALF THEN 2 ELSE 1

\* the jitter of sample i
aaOffset(ub, uvq, i) ==
    IF aaSamples(ub) > 1
    THEN <<Div(FractMul(Sin(i * 12989800 + uvq[1]), 43758, 545300) - HALF, ub.resolution[1]),
           Div(FractMul(Cos(i * 4141400 + uvq[2]), 53211, 554300) - HALF, ub.resolution[2])>>
    ELSE <<0, 0>>

\* p = (-resolution + 2.0 * (uv + offset) * resolution) / resolution.y
screenPoint(ub, uvq, offset) ==
    <<Div(Mul(2 * (uvq[1] + offset[1]), ub.resolution[1]) - ub.resolution[1],
          ub.resolution[2]),
      Div(Mul(2 * (uvq[2] + offset[2]), ub.resolution[2]) - ub.resolution[2],
          ub.resolution[2])>>

cameraW(ro) == Normalize(VSub(<<0, -HALF, 0>>, ro))
cameraU(ww) == Normalize(Cross(ww, <<0, ONE, 0>>))
cameraV(uu, ww) == Normalize(Cross(uu, ww))

\* rd = normalize(p.x * uu + p.y * vv + 2.0 * ww)
rayThrough(p, uu, vv, ww) ==
    Normalize(VAdd(VAdd(VScale(uu, p[1]), VScale(vv, p[2])), VScale(ww, 2 * ONE)))

rayFrom(p, uu, ww) == rayThrough(p, uu, cameraV(uu, ww), ww)

rayToward(p, ww) == Eval(LAMBDA uu : rayFrom(p, uu, ww), cameraU(ww))

\* the direction of sample i of the fragment at uvq
rayDir(ub, uvq, i) ==
    Eval(LAMBDA ww : rayToward(screenPoint(ub, uvq, aaOffset(ub, uvq, i)), ww),
         cameraW(ub.cameraPos))

\* ------------------------------------------------------------------ fog
\* mix(col, vec3f(0.01, 0.015, 0.02), 1.0 - exp(-0.02 * t * t))
fog(col, t) ==
    VMix(col, <<10000, 15000, 20000>>, ONE - Exp(Mul(Mul(-20000, t), t)))

\* ----------------------------------------------------------------- post
\* 0.5 + 0.5 * pow(16 q.x q.y (1 - q.x) (1 - q.y), vignette)
vignetteOf(ub, q) ==
    HALF + Mul(HALF, Pow(Mul(Mul(Mul(16 * q[1], q[2]), ONE - q[1]), ONE - q[2]),
                         ub.vignette))

\* noiseG = fract(sin(dot(uv * resolution, vec2f(12.9898, 78.233) * time)) * 43758.5453)
grainNoise(ub, uvq) ==
    FractMul(Sin(Mul(Mul(uvq[1], ub.resolution[1]), Mul(12989800, ub.time))
                 + Mul(Mul(uvq[2], ub.resolution[2]), Mul(78233000, ub.time))),
             43758, 545300)

\* finalColor after the vignette and the grain, before tone mapping
grained(ub, uvq, c) ==
    VAddS(VScale(c, vignetteOf(ub, uvq)), Mul(grainNoise(ub, uvq) - HALF, ub.grainStrength))

\* (x * (a x + b)) / (x * (c x + d) + e) with numerator and denominator both
\* divided by k * k, so that a large x keeps its products in range
acesRatio(x, k) ==
    Div(Mul(x \div k, Mul(2510000, x \div k) + (30000 \div k)),
        Mul(x \div k, Mul(2430000, x \div k) + (590000 \div k)) + (140000 \div (k * k)))

aces(x) == IF Abs(x) <= 16 * ONE THEN acesRatio(x, 1) ELSE acesRatio(x, 128)

\* the tone-mapping step on one channel c of finalColor
toneMap(c) == Clamp(aces(Mul(c, 1500000)), 0, ONE)

toneMapped(c) == <<toneMap(c[1]), toneMap(c[2]), toneMap(c[3])>>

\* the grain added to the tone-mapped colour instead of before the tone map
mappedGrainLast(ub, uvq, c) ==
    VAddS(toneMapped(VScale(c, vignetteOf(ub, uvq))),
          Mul(grainNoise(ub, uvq) - HALF, ub.grainStrength))

\* finalColor after the vignette, the grain and the tone map
mappedOf(ub, uvq, c) == toneMapped(grained(ub, uvq, c))

\* pow(c, 1.0 / 2.2)
gamma(c) == Pow(c, Div(ONE, 2200000))

\* the vec4f fs_main returns for the tone-mapped colour
outputOf(mapped) == <<gamma(mapped[1]), gamma(mapped[2]), gamma(mapped[3]), ONE>>

\* ------------------------------------------------------- parameter blocks
\* the values the host writes at start-up (params of the renderer, 800 x 600)
DefaultParams ==
    [resolution |-> <<800 * ONE, 600 * ONE>>,
     time |-> 0,
     dt |-> 0,
     cameraPos |-> <<2061073, 1329841, 3772789>>,
     mouse |-> <<0, 0, 0, 0>>,
     animSpeed |-> 200000,
     detail |-> 350000,
     vignette |-> 200000,
     metallic |-> ONE,
     baseColor |-> <<800000, 800000, 850000>>,
     grainStrength |-> 0,
     lightAz |-> 100000,
     lightEl |-> 600000,
     isRendering |-> 0,
     aberrationStrength |-> 0,
     electricSpeed |-> 800000,
     electricIntensity |-> 12 * ONE,
     electricColor |-> <<100000, 600000, ONE>>,
     audio |-> <<0, 0, 0, 0>>]

\* ------------------------------------------------------ fs_main, by steps
\* The locals of fs_main.  calls counts the calls of renderPBR of this fragment
\* and pbrIn holds the roughness and metallic of the latest one; refl counts the
\* secondary marches of the current sample, blended tells whether its
\* reflection was mixed in, preGlow is col as it was before the arc pass;
\* offsets and cols list the jitter and the colour of the samples so far.
fsEnter ==
    [i |-> 0, finalColor |-> <<0, 0, 0>>,
     rd |-> <<0, 0, 0>>, t |-> 0, m |-> 0, hit |-> 0, col |-> <<0, 0, 0>>,
     pos |-> <<0, 0, 0>>, nor |-> <<0, 0, 0>>, view |-> <<0, 0, 0>>,
     albedo |-> <<0, 0, 0>>, roughness |-> 0, metallic |-> 0, ao |-> 0,
     rPos |-> <<0, 0, 0>>, rNor |-> <<0, 0, 0>>, rAO |-> 0,
     refl |-> 0, blended |-> FALSE, glowRan |-> FALSE, preGlow |-> <<0, 0, 0>>,
     calls |-> 0, pbrIn |-> [roughness |-> 0, metallic |-> 0],
     offsets |-> <<>>, cols |-> <<>>]

NoAO == aoEnter(<<0, 0, 0>>, <<0, 0, 0>>)
NoShadow == shadowEnter(<<0, 0, 0>>, <<0, 0, 0>>, 0, 0, 0)
NoOutput ==
    [avg |-> <<0, 0, 0>>, pre |-> <<0, 0, 0>>, mapped |-> <<0, 0, 0>>,
     rgba |-> <<0, 0, 0, 0>>]

\* the head of the anti-aliasing loop: jitter, ray, and the call of raymarch
SampleAlong(rd) ==
    /\ fs' = [fs EXCEPT !.rd = rd, !.refl = 0, !.blended = FALSE, !.glowRan = FALSE,
                        !.offsets = Append(@, aaOffset(u, uv, fs.i))]
    /\ rm' = raymarchEnter(u.cameraPos, rd, "primary")
    /\ pc' = "raymarch"

SampleBegin ==
    /\ pc = "sample"
    /\ SampleAlong(rayDir(u, uv, fs.i))
    /\ UNCHANGED <<hostVars, seen, fold, u, uv, aof, sh, gl, li, out>>

\* the primary march returned a hit at pos with normal nor: getAO is called
ShadeHit(pos, nor) ==
    /\ fs' = [fs EXCEPT !.t = rm.res[1], !.m = rm.res[2], !.hit = rm.res[3],
                        !.col = VScale(getSky(fs.rd), 50000),
                        !.pos = pos, !.nor = nor, !.view = VNeg(fs.rd),
                        !.albedo = u.baseColor, !.roughness = u.detail,
                        !.metallic = u.metallic]
    /\ aof' = aoEnter(pos, nor)
    /\ pc' = "ao"

ShadeAt(pos) == ShadeHit(pos, calcNormal(u, pos))

ShadeMissFogged ==
    /\ fs' = [fs EXCEPT !.t = rm.res[1], !.m = rm.res[2], !.hit = rm.res[3],
                        !.col = VScale(getSky(fs.rd), 50000)]
    /\ aof' = aof
    /\ pc' = "fog"

\* the primary march missed: col stays the sky
ShadeMiss ==
    /\ fs' = [fs EXCEPT !.t = rm.res[1], !.m = rm.res[2], !.hit = rm.res[3],
                        !.col = VScale(getSky(fs.rd), 50000)]
    /\ aof' = aof
    /\ pc' = "glow"

Shade ==
    /\ pc = "shade"
    /\ IF rm.res[3] > HALF
       THEN ShadeAt(VAdd(u.cameraPos, VScale(fs.rd, rm.res[1])))
       ELSE ShadeMiss
    /\ UNCHANGED <<hostVars, seen, fold, u, uv, rm, sh, gl, li, out>>

\* one pass through the loop of getAO, for the primary hit or the reflected one
AOSample(g) ==
    /\ aof' = g
    /\ pc' = IF aoLoops(g) THEN pc ELSE IF pc = "ao" THEN "material" ELSE "rlight"

AOStep ==
    /\ pc \in {"ao", "rao"}
    /\ aoLoops(aof)
    /\ AOSample(aoIter(aof, map(u, VAdd(aof.p, VScale(aof.n, aoHeight(aof.i))))[1]))
    /\ UNCHANGED <<hostVars, seen, fold, u, uv, rm, fs, sh, gl, li, out>>

\* the shadow ray renderPBR casts from p with normal n toward light 0
shadowToward(p, n) ==
    shadowEnter(VAdd(p, VScale(n, 10000)), lightDir(1, p), 50000, lightDist(1, p),
                16 * ONE)

\* the material of the hit is settled and renderPBR is called with it
MaterialAs(mat, occ) ==
    /\ fs' = [fs EXCEPT !.albedo = mat.albedo, !.roughness = mat.roughness,
                        !.metallic = mat.metallic, !.nor = mat.nor, !.ao = occ,
                        !.calls = @ + 1,
                        !.pbrIn = [roughness |-> mat.roughness,
                                   metallic |-> mat.metallic]]
    /\ sh' = shadowToward(fs.pos, mat.nor)
    /\ pc' = "shadow"

MaterialOf(occ) == MaterialAs(material(u, fs.m, fs.pos, fs.nor, occ), occ)

Material ==
    /\ pc = "material"
    /\ MaterialOf(aoResult(aof))
    /\ UNCHANGED <<hostVars, seen, fold, u, uv, rm, aof, gl, li, out>>

\* one pass through the loop of getShadow
ShadowSample(g) ==
    /\ sh' = g
    /\ pc' = IF shadowLoops(g) THEN pc ELSE IF pc = "shadow" THEN "pbr" ELSE "rpbr"

ShadowStep ==
    /\ pc \in {"shadow", "rshadow"}
    /\ shadowLoops(sh)
    /\ IF sh.t = 0
       THEN \E q \in Indeterminate :
                ShadowSample(shadowWith(sh, map(u, VAdd(sh.ro, VScale(sh.rd, sh.t)))[1], q))
       ELSE ShadowSample(shadowIter(sh, map(u, VAdd(sh.ro, VScale(sh.rd, sh.t)))[1]))
    /\ UNCHANGED <<hostVars, seen, fold, u, uv, rm, fs, aof, gl, li, out>>

\* the test that guards the reflection pass, without the test of the mode
reflectsAnyMode(ub, roughness) == roughness < HALF

\* the test that guards the reflection pass
reflects(ub, roughness) == ub.isRendering > HALF /\ roughness < HALF

\* renderPBR returned col for the primary hit; the reflection ray is marched
\* when the guard allows it
LitAs(col) ==
    IF reflects(u, fs.roughness)
    THEN /\ fs' = [fs EXCEPT !.col = col, !.refl = @ + 1]
         /\ rm' = raymarchEnter(VAdd(fs.pos, VScale(fs.nor, 50000)),
                                Reflect(fs.rd, fs.nor), "reflect")
         /\ pc' = "raymarch"
    ELSE /\ fs' = [fs EXCEPT !.col = col]
         /\ rm' = rm
         /\ pc' = "fog"

Lit ==
    /\ pc = "pbr"
    /\ LitAs(renderPBR(fs.pos, fs.nor, fs.view, fs.albedo, fs.metallic, fs.roughness,
                       fs.ao, shadowResult(sh)))
    /\ UNCHANGED <<hostVars, seen, fold, u, uv, aof, sh, gl, li, out>>

\* the reflection march returned: a hit at rPos is shaded, a miss is dropped
ReflectedHit(rPos, rNor) ==
    /\ fs' = [fs EXCEPT !.rPos = rPos, !.rNor = rNor]
    /\ aof' = aoEnter(rPos, rNor)
    /\ pc' = "rao"

ReflectedAt(rPos) == ReflectedHit(rPos, calcNormal(u, rPos))

Reflected ==
    /\ pc = "reflected"
    /\ IF rm.res[3] > HALF
       THEN ReflectedAt(VAdd(rm.ro, VScale(rm.rd, rm.res[1])))
       ELSE fs' = fs /\ aof' = aof /\ pc' = "fog"
    /\ UNCHANGED <<hostVars, seen, fold, u, uv, rm, sh, gl, li, out>>

\* renderPBR is called for the reflected hit, with roughness 0.5
ReflectLight ==
    /\ pc = "rlight"
    /\ fs' = [fs EXCEPT !.rAO = aoResult(aof), !.calls = @ + 1,
                        !.pbrIn = [roughness |-> HALF, metallic |-> u.metallic]]
    /\ sh' = shadowToward(fs.rPos, fs.rNor)
    /\ pc' = "rshadow"
    /\ UNCHANGED <<hostVars, seen, fold, u, uv, rm, aof, gl, li, out>>

\* col = mix(col, rLight, F * (1.0 - roughness))
blend(col, rLight, F, roughness) == VMixV(col, rLight, VScale(F, ONE - roughness))

ReflectBlend ==
    /\ pc = "rpbr"
    /\ fs' = [fs EXCEPT
                !.col = blend(@, renderPBR(fs.rPos, fs.rNor, VNeg(rm.rd), u.baseColor,
                                           u.metallic, HALF, fs.rAO, shadowResult(sh)),
                              fresnelSchlick(Max(Dot(fs.nor, fs.view), 0),
                                             VMix(<<40000, 40000, 40000>>, fs.albedo,
                                                  fs.metallic)),
                              fs.roughness),
                !.blended = TRUE]
    /\ pc' = "fog"
    /\ UNCHANGED <<hostVars, seen, fold, u, uv, rm, aof, sh, gl, li, out>>

Fog ==
    /\ pc = "fog"
    /\ fs' = [fs EXCEPT !.col = fog(@, fs.t)]
    /\ pc' = "glow"
    /\ UNCHANGED <<hostVars, seen, fold, u, uv, rm, aof, sh, gl, li, out>>

\* the guard of the arc pass and the call of getGlow
GlowBegin ==
    /\ pc = "glow"
    /\ fs' = [fs EXCEPT !.preGlow = fs.col, !.glowRan = u.electricIntensity > 10000]
    /\ IF u.electricIntensity > 10000
       THEN gl' = glowEnter(u, u.cameraPos, fs.rd, fs.t) /\ pc' = "glowloop"
       ELSE gl' = gl /\ pc' = "accum"
    /\ UNCHANGED <<hostVars, seen, fold, u, uv, rm, aof, sh, li, out>>

\* one pass through the loop of getGlow; when the loop ends col += electricity
GlowTo(g) ==
    /\ gl' = g
    /\ IF glowLoops(g)
       THEN fs' = fs /\ pc' = pc
       ELSE fs' = [fs EXCEPT !.col = VAdd(@, g.acc)] /\ pc' = "accum"

GlowStep ==
    /\ pc = "glowloop"
    /\ glowLoops(gl)
    /\ GlowTo(glowIter(u, gl))
    /\ UNCHANGED <<hostVars, seen, fold, u, uv, rm, aof, sh, li, out>>

\* finalColor += col and the loop of fs_main goes round
Accumulate ==
    /\ pc = "accum"
    /\ fs' = [fs EXCEPT !.finalColor = VAdd(@, fs.col), !.i = @ + 1,
                        !.cols = Append(@, fs.col)]
    /\ pc' = IF fs.i + 1 < aaSamples(u) THEN "sample" ELSE "post"
    /\ UNCHANGED <<hostVars, seen, fold, u, uv, rm, aof, sh, gl, li, out>>

\* the stages of the post-processing of the averaged colour avg: pre reaches
\* the tone map, mapped leaves it, rgba is returned
PostOf(avg, pre, mapped) ==
    out' = [avg |-> avg, pre |-> pre, mapped |-> mapped, rgba |-> outputOf(mapped)]

Post ==
    /\ pc = "post"
    /\ PostOf(VDiv(fs.finalColor, aaSamples(u) * ONE),
              grained(u, uv, VDiv(fs.finalColor, aaSamples(u) * ONE)),
              mappedOf(u, uv, VDiv(fs.finalColor, aaSamples(u) * ONE)))
    /\ pc' = "done"
    /\ UNCHANGED <<hostVars, seen, fold, u, uv, rm, fs, aof, sh, gl, li>>

\* ------------------------------------------------------- struct Uniforms
\* the members of struct Uniforms, in declaration order
UniformsMembers ==
    <<[name |-> "resolution", type |-> "vec2f"],
      [name |-> "time", type |-> "f32"],
      [name |-> "dt", type |-> "f32"],
      [name |-> "cameraPos", type |-> "vec4f"],
      [name |-> "mouse", type |-> "vec4f"],
      [name |-> "animSpeed", type |-> "f32"],
      [name |-> "detail", type |-> "f32"],
      [name |-> "vignette", type |-> "f32"],
      [name |-> "metallic", type |-> "f32"],
      [name |-> "baseColor", type |-> "vec4f"],
      [name |-> "grainStrength", type |-> "f32"],
      [name |-> "lightAz", type |-> "f32"],
      [name |-> "lightEl", type |-> "f32"],
      [name |-> "isRendering", type |-> "f32"],
      [name |-> "aberrationStrength", type |-> "f32"],
      [name |-> "electricSpeed", type |-> "f32"],
      [name |-> "electricIntensity", type |-> "f32"],
      [name |-> "electricColor", type |-> "vec4f"],
      [name |-> "audio", type |-> "vec4f"]>>

\* WGSL: f32 has size and alignment 4, vec2f 8, vec4f 16
SizeOf(type) == IF type = "f32" THEN 4 ELSE IF type = "vec2f" THEN 8 ELSE 16
AlignOf(type) == SizeOf(type)

RoundUp(k, n) == ((n + k - 1) \div k) * k

RECURSIVE memberOffset(_)
\* WGSL: a member starts at the end of the member before it, rounded up to its
\* own alignment
memberOffset(i) ==
    IF i = 1 THEN 0
    ELSE RoundUp(AlignOf(UniformsMembers[i].type),
                 memberOffset(i - 1) + SizeOf(UniformsMembers[i - 1].type))

memberIndex(name) == CHOOSE i \in DOMAIN UniformsMembers : UniformsMembers[i].name = name

\* the byte offsets of the members, in declaration order
UniformsOffsets == [i \in DOMAIN UniformsMembers |-> memberOffset(i)]

\* the byte offset of the member called name
offsetOf(name) == UniformsOffsets[memberIndex(name)]

\* WGSL: the size of a struct is the end of its last member rounded up to the
\* largest alignment of its members
UniformsSize ==
    RoundUp(16, UniformsOffsets[Len(UniformsMembers)]
                + SizeOf(UniformsMembers[Len(UniformsMembers)].type))

\* what the shader reads as u.<name> from a buffer of 4-byte floats
uniformsRead(data, name) ==
    [c \in 1..(SizeOf(UniformsMembers[memberIndex(name)].type) \div 4) |->
        data[offsetOf(name) \div 4 + c - 1]]

\* ------------------------------------------------------- the host: state

\* new Float32Array(128), and device.createBuffer({ size: 512, usage: 72 })
BUFFER_FLOATS == 128
BUFFER_BYTES == 512
ZeroData == [i \in 0..(BUFFER_FLOATS - 1) |-> 0]

\* cameraState and mouseState at construction, no audio, no capture request;
\* blobs counts the toBlob callbacks that are due and exports the toBlob calls
\* made since the latest capture(); events lists the mouse events handled;
\* lastX and lastY are in pixels, the mouse in millionths of a pixel;
\* fresh tells that startVideo was called since the last frame, and a frame
\* keeps it as restarted, next to whether it and the frame before it were
\* frames of a recording
NoConfig == [fps |-> 0, duration |-> 0, shotType |-> "none", orchestrate |-> FALSE]
NoRecording ==
    [isRecording |-> FALSE, recordedFrames |-> 0, config |-> NoConfig,
     recorder |-> "none", stopQueued |-> FALSE, fresh |-> FALSE]
NoFrame ==
    [n |-> 0, width |-> 0, height |-> 0, elapsedTime |-> 0, prevTime |-> 0,
     cameraPos |-> <<0, 0, 0>>, mouse |-> <<0, 0, 0>>, audio |-> <<0, 0, 0, 0>>,
     audioOn |-> FALSE, recorded |-> FALSE, prevRecorded |-> FALSE, restarted |-> FALSE]
DefaultUI ==
    [client |-> <<800, 600>>,
     camera |-> [theta |-> HALF, phi |-> 300000, radius |-> 4500000,
                 isDragging |-> FALSE, lastX |-> 0, lastY |-> 0],
     mouse |-> <<0, 0, 0>>, events |-> <<>>, audioOn |-> FALSE, levels |-> <<0, 0, 0, 0>>,
     capturePending |-> 0, blobs |-> 0, exports |-> 0, requestFrame |-> TRUE,
     startTime |-> 0]

FramesIdle ==
    /\ clock = 0 /\ ui = DefaultUI /\ rec = NoRecording /\ frame = NoFrame
    /\ uniformData = ZeroData

\* ------------------------------------------------- the host: GPU resources
\* nothing created yet, no ref set (0 stands for null)
NoRefs ==
    [device |-> 0, context |-> 0, uniformBuffer |-> 0, texture |-> 0, sampler |-> 0,
     pipeline |-> 0, bindGroup |-> 0]
NoGPU ==
    [made |-> [device |-> 0, context |-> 0, uniformBuffer |-> 0, texture |-> 0,
               sampler |-> 0, module |-> 0, pipeline |-> 0, bindGroup |-> 0],
     destroyed |-> {}]

\* the component after its first effect has run: mounted, initWebGPU waiting
\* for the adapter; texture is the default texture once it is being made,
\* request tells that a callback of requestAnimationFrame is due, scopes counts
\* the popErrorScope promises of frames that have not resolved, overlay is the
\* error the parent displays, reports the onError calls of the latest step of
\* compilePipeline and info the messages it went through, built the shaderCode of the pipeline in pipelineRef (-1
\* without one), okCodes the shaderCodes whose compilation succeeded, and
\* halted tells that render returned on errorReportedRef and nothing has
\* requested a frame since
Mounted ==
    [mounted |-> TRUE, shaderCode |-> 0, init |-> "adapter", request |-> FALSE,
     texture |-> 0, errorReported |-> FALSE, scopes |-> 0, overlay |-> "none",
     reports |-> <<>>, info |-> <<>>, built |-> -1, okCodes |-> {}, halted |-> FALSE]

MountIdle == comp = Mounted /\ refs = NoRefs /\ gpu = NoGPU /\ compiles = {}

\* one more object of the kind, numbered from 1
make(g, kind) == [g EXCEPT !.made[kind] = @ + 1]

rebindAll(r, g) ==
    IF r.pipeline = 0 \/ r.uniformBuffer = 0 \/ r.texture = 0 \/ r.sampler = 0
    THEN [refs |-> r, gpu |-> g]
    ELSE [refs |-> [r EXCEPT !.bindGroup = g.made.bindGroup + 1,
                             !.sampler = g.made.sampler + 1],
          gpu |-> make(make(g, "bindGroup"), "sampler")]

\* rebind(device): a bind group over the buffer, the texture and the sampler
\* for the layout of the pipeline, when all four are there
rebind(r, g) ==
    IF r.pipeline = 0 \/ r.uniformBuffer = 0 \/ r.texture = 0 \/ r.sampler = 0
    THEN [refs |-> r, gpu |-> g]
    ELSE [refs |-> [r EXCEPT !.bindGroup = g.made.bindGroup + 1],
          gpu |-> make(g, "bindGroup")]

\* compilePipeline up to await shaderModule.getCompilationInfo()
compileTask(origin, device, code, g) ==
    [origin |-> origin, device |-> device, code |-> code, pc |-> "info",
     module |-> g.made.module + 1, pipeline |-> 0]

\* requestAdapter() has resolved, with an adapter or with null
AdapterResolved ==
    /\ comp.init = "adapter"
    /\ \E adapter \in BOOLEAN :
           comp' = [comp EXCEPT !.init = IF adapter THEN "device" ELSE "returned"]
    /\ UNCHANGED <<kernelVars, frameVars, refs, gpu, compiles>>

\* requestDevice() has resolved or thrown; deviceRef, the context, the uniform
\* buffer and the call of createDefaultTexture follow unless the component is
\* unmounted
DeviceResolved ==
    /\ comp.init = "device"
    /\ \E thrown \in BOOLEAN :
           IF thrown
           THEN comp' = [comp EXCEPT !.init = "returned"] /\ UNCHANGED <<refs, gpu>>
           ELSE IF ~comp.mounted
           THEN /\ gpu' = [make(gpu, "device") EXCEPT
                               !.destroyed = @ \cup {gpu.made.device + 1}]
                /\ comp' = [comp EXCEPT !.init = "returned"]
                /\ UNCHANGED refs
           ELSE /\ gpu' = make(make(make(make(gpu, "device"), "context"), "uniformBuffer"),
                               "texture")
                /\ refs' = [refs EXCEPT !.device = gpu.made.device + 1,
                                        !.context = gpu.made.context + 1,
                                        !.uniformBuffer = gpu.made.uniformBuffer + 1]
                /\ comp' = [comp EXCEPT !.init = "texture", !.texture = gpu.made.texture + 1]
    /\ UNCHANGED <<kernelVars, frameVars, compiles>>

\* createDefaultTexture(device) has resolved: textureRef, the sampler, and the
\* call of compilePipeline with the shaderCode of the first render
TextureResolved ==
    /\ comp.init = "texture"
    /\ refs' = [refs EXCEPT !.texture = comp.texture, !.sampler = gpu.made.sampler + 1]
    /\ gpu' = make(make(gpu, "sampler"), "module")
    /\ compiles' = compiles \cup {compileTask("init", refs.device, 0, gpu)}
    /\ comp' = [comp EXCEPT !.init = "compile"]
    /\ UNCHANGED <<kernelVars, frameVars>>

\* getErrorMessage(err) for a string, a GPUValidationError and undefined
getErrorMessage(err) ==
    CASE err.kind = "string" -> err.text
      [] err.kind = "validation" -> "Validation Error: " \o err.text
      [] OTHER -> "Undefined Error"

\* compilationInfo.messages of a shader: none, a warning, an error, and two
\* errors around a warning
CompileMessages ==
    {<<>>,
     <<[type |-> "warning", message |-> "unused variable", lineNum |-> 4, linePos |-> 2]>>,
     <<[type |-> "error", message |-> "unresolved type", lineNum |-> 3, linePos |-> 7]>>,
     <<[type |-> "error", message |-> "unresolved type", lineNum |-> 3, linePos |-> 7],
       [type |-> "warning", message |-> "unused variable", lineNum |-> 4, linePos |-> 2],
       [type |-> "error", message |-> "expected ';'", lineNum |-> 12, linePos |-> 1]>>}

compileError(msg) ==
    [type |-> "compilation",
     message |-> getErrorMessage([kind |-> "string", text |-> msg.message]),
     lineNum |-> msg.lineNum, linePos |-> msg.linePos]

RECURSIVE compileErrorsFirstOnly(_)
compileErrorsFirstOnly(messages) ==
    IF messages = <<>> THEN <<>>
    ELSE IF Head(messages).type = "error" THEN <<compileError(Head(messages))>>
    ELSE compileErrorsFirstOnly(Tail(messages))

RECURSIVE compileErrors(_)
\* the calls of onError made by the loop over compilationInfo.messages
compileErrors(messages) ==
    IF messages = <<>> THEN <<>>
    ELSE IF Head(messages).type = "error"
    THEN <<compileError(Head(messages))>> \o compileErrors(Tail(messages))
    ELSE compileErrors(Tail(messages))

\* getCompilationInfo() has resolved: with an error among the messages each
\* error is reported and the call returns; without one the error is cleared,
\* the layouts and the pipeline are created and popErrorScope is awaited
CompileInfo ==
    \E t \in compiles :
        /\ t.pc = "info"
        /\ \E messages \in CompileMessages :
               IF compileErrors(messages) # <<>>
               THEN /\ compiles' = compiles \ {t}
                    /\ comp' = [comp EXCEPT !.reports = compileErrors(messages),
                                            !.info = messages,
                                            !.overlay = "compilation"]
                    /\ UNCHANGED gpu
               ELSE /\ compiles' = (compiles \ {t})
                                   \cup {[t EXCEPT !.pc = "scope",
                                                   !.pipeline = gpu.made.pipeline + 1]}
                    /\ comp' = [comp EXCEPT !.reports = <<>>, !.info = messages,
                                            !.overlay = "none",
                                            !.errorReported = FALSE]
                    /\ gpu' = make(gpu, "pipeline")
        /\ UNCHANGED <<kernelVars, frameVars, refs>>

Rebound(b) == refs' = b.refs /\ gpu' = b.gpu

\* popErrorScope() has resolved: pipelineRef is set and rebind runs, or
\* pipelineRef is cleared
CompileScope ==
    \E t \in compiles :
        /\ t.pc = "scope"
        /\ compiles' = compiles \ {t}
        /\ \E error \in BOOLEAN :
               IF error
               THEN /\ refs' = [refs EXCEPT !.pipeline = 0]
                    /\ comp' = [comp EXCEPT !.reports = <<[type |-> "runtime"]>>,
                                            !.overlay = "runtime", !.built = -1]
                    /\ UNCHANGED gpu
               ELSE /\ Rebound(rebind([refs EXCEPT !.pipeline = t.pipeline], gpu))
                    /\ comp' = [comp EXCEPT !.built = t.code,
                                            !.okCodes = @ \cup {t.code}]
        /\ UNCHANGED <<kernelVars, frameVars>>

\* await compilePipeline(...) of initWebGPU is over: the first frame is requested
InitCompiled ==
    /\ comp.init = "compile"
    /\ \A t \in compiles : t.origin # "init"
    /\ comp' = [comp EXCEPT !.init = "done", !.request = TRUE, !.halted = FALSE]
    /\ UNCHANGED <<kernelVars, frameVars, refs, gpu, compiles>>

MaxEdits == 2

\* the shaderCode prop changes and the effect on [shaderCode] runs
ShaderEdit ==
    /\ comp.mounted
    /\ comp.shaderCode < MaxEdits
    /\ comp' = [comp EXCEPT !.shaderCode = @ + 1]
    /\ IF refs.device # 0 /\ refs.context # 0
       THEN /\ compiles' = compiles
                           \cup {compileTask("edit", refs.device, comp.shaderCode + 1, gpu)}
            /\ gpu' = make(gpu, "module")
       ELSE UNCHANGED <<compiles, gpu>>
    /\ UNCHANGED <<kernelVars, frameVars, refs>>

MaxTextures == 2

\* loadTexture(file): a texture from the image replaces textureRef
LoadTexture ==
    /\ comp.mounted
    /\ refs.device # 0
    /\ gpu.made.texture < MaxTextures
    /\ Rebound(rebind([refs EXCEPT !.texture = gpu.made.texture + 1], make(gpu, "texture")))
    /\ UNCHANGED <<kernelVars, frameVars, comp, compiles>>

\* the cleanup of the first effect
Unmount ==
    /\ comp.mounted
    /\ comp' = [comp EXCEPT !.mounted = FALSE, !.request = FALSE]
    /\ UNCHANGED <<kernelVars, frameVars, refs, gpu, compiles>>

\* initWebGPU has run to its end and nothing has been edited or loaded since
MountRunning ==
    /\ comp = [Mounted EXCEPT !.init = "done", !.request = TRUE, !.texture = 1,
                              !.built = 0, !.okCodes = {0}]
    /\ refs = [device |-> 1, context |-> 1, uniformBuffer |-> 1, texture |-> 1,
               sampler |-> 1, pipeline |-> 1, bindGroup |-> 1]
    /\ gpu = [made |-> [device |-> 1, context |-> 1, uniformBuffer |-> 1, texture |-> 1,
                        sampler |-> 1, module |-> 1, pipeline |-> 1, bindGroup |-> 1],
              destroyed |-> {}]
    /\ compiles = {}

HostIdle == FramesIdle /\ MountIdle

\* ------------------------------------------------------- the host: frames
\* the strict validation of render
ready(r) ==
    /\ r.device # 0 /\ r.context # 0 /\ r.pipeline # 0 /\ r.uniformBuffer # 0
    /\ r.bindGroup # 0 /\ r.texture # 0

\* width and height of the frame, in pixels
frameSize(g, r) ==
    IF g.capturePending > 0 THEN <<3840, 2160>>
    ELSE IF r.isRecording THEN <<1920, 1080>>
    ELSE g.client

\* (time - startTimeRef.current) * 0.001, in seconds
liveTime(time, startTime) == (time - startTime) * KILO

recordedTimeCountdown(frames, fps) == ((10 - frames) * ONE) \div fps

\* recordedFramesRef.current / fps, in seconds
recordedTime(frames, fps) == (frames * ONE) \div fps

recording(r) == r.isRecording /\ r.config # NoConfig

\* elapsedTime of the frame
frameTime(time, g, r) ==
    IF recording(r) THEN recordedTime(r.recordedFrames, r.config.fps)
    ELSE liveTime(time, g.startTime)

\* the camera of a recording frame, by shot type
shotCamera(cam, shot, t, duration) ==
    CASE shot = "orbit" -> [cam EXCEPT !.theta = @ + Mul(t, HALF)]
      [] shot = "sweep" ->
            [theta |-> cam.theta + Mul(t, 300000), phi |-> 100000, radius |-> 6 * ONE]
      [] shot = "dolly" ->
            [cam EXCEPT !.radius = 6 * ONE - 2 * Min(ONE, Div(t, duration)),
                        !.theta = @ + Mul(t, 100000)]
      [] shot = "breathing" ->
            [cam EXCEPT !.radius = 5 * ONE + Mul(Sin(Mul(t, 800000)), HALF),
                        !.theta = @ + Mul(t, 200000)]
      [] shot = "chaos" ->
            [theta |-> cam.theta + Mul(t, HALF), phi |-> Mul(Sin(2 * t), HALF),
             radius |-> 4 * ONE + Mul(Cos(3 * t), HALF)]
      [] OTHER -> cam

frameCamera(t, g, r) ==
    IF recording(r) THEN shotCamera(g.camera, r.config.shotType, t, r.config.duration)
    ELSE g.camera

\* cx, cy, cz
cameraPosition(cam) ==
    <<Mul(Mul(cam.radius, Cos(cam.phi)), Sin(cam.theta)),
      Mul(cam.radius, Sin(cam.phi)),
      Mul(Mul(cam.radius, Cos(cam.phi)), Cos(cam.theta))>>

\* avg / 255.0 and the three bands / 255.0
audioLevels(bytes) ==
    <<(bytes[1] * ONE) \div 255, (bytes[2] * ONE) \div 255, (bytes[3] * ONE) \div 255,
      (bytes[4] * ONE) \div 255>>

\* the locals of render once elapsedTime, the camera and the audio are known
frameOf(time, g, r, prev) ==
    [n |-> prev.n + 1,
     width |-> frameSize(g, r)[1], height |-> frameSize(g, r)[2],
     elapsedTime |-> frameTime(time, g, r),
     prevTime |-> prev.elapsedTime,
     cameraPos |-> cameraPosition(frameCamera(frameTime(time, g, r), g, r)),
     mouse |-> g.mouse,
     audio |-> audioLevels(g.levels),
     audioOn |-> g.audioOn,
     recorded |-> recording(r), prevRecorded |-> prev.recorded, restarted |-> r.fresh]

\* the params written into the block: the values of the sliders, with lightAz
\* replaced when the recording is orchestrated
frameParams(t, r) ==
    IF recording(r) /\ r.config.orchestrate
    THEN [DefaultParams EXCEPT !.lightAz = Mul(Sin(Mul(t, HALF)), HALF) + HALF]
    ELSE DefaultParams

\* the params of the sliders: the members from animSpeed to electricColor; a
\* float has one value and a colour three
ParamSlotOf ==
    [i \in 0..(BUFFER_FLOATS - 1) |->
        {k \in 6..18 :
            /\ i >= UniformsOffsets[k] \div 4
            /\ i < UniformsOffsets[k] \div 4
                   + (IF UniformsMembers[k].type = "vec4f" THEN 3 ELSE 1)}]

paramFloat(params, k, c) ==
    IF UniformsMembers[k].type = "vec4f"
    THEN params[UniformsMembers[k].name][c]
    ELSE params[UniformsMembers[k].name]

\* writeParamsToBuffer(uniformData, currentParams, layout): each param at the
\* float index of its member, for the layout that starts at byte 48
writeParamsToBuffer(data, params) ==
    [i \in DOMAIN data |->
        IF ParamSlotOf[i] = {} THEN data[i]
        ELSE paramFloat(params, CHOOSE k \in ParamSlotOf[i] : TRUE,
                        i - UniformsOffsets[CHOOSE k \in ParamSlotOf[i] : TRUE] \div 4 + 1)]

headerDataTimeInDt(fr) ==
    [i \in 0..(BUFFER_FLOATS - 1) |->
        CASE i = 0 -> fr.width [] i = 1 -> fr.height [] i = 3 -> fr.elapsedTime
          [] i \in 4..6 -> fr.cameraPos[i - 3]
          [] i \in 8..10 -> fr.mouse[i - 7]
          [] OTHER -> 0]

\* uniformData[0] = width; ... uniformData[10] = mouseState.current.isDown
\* (width and height are kept in pixels, the other floats in millionths)
headerData(fr) ==
    [i \in 0..(BUFFER_FLOATS - 1) |->
        CASE i = 0 -> fr.width [] i = 1 -> fr.height [] i = 2 -> fr.elapsedTime
          [] i \in 4..6 -> fr.cameraPos[i - 3]
          [] i \in 8..10 -> fr.mouse[i - 7]
          [] OTHER -> 0]

\* uniformData[32] .. uniformData[35], written when an analyser is attached
audioData(data, fr) ==
    IF fr.audioOn
    THEN [i \in DOMAIN data |-> IF i \in 32..35 THEN fr.audio[i - 31] ELSE data[i]]
    ELSE data

\* the array handed to device.queue.writeBuffer
frameData(fr, params) == audioData(writeParamsToBuffer(headerData(fr), params), fr)

\* what the recording branch of render leaves in the refs
recordedFrame(r) ==
    IF ~recording(r) THEN [r EXCEPT !.fresh = FALSE]
    ELSE IF recordedTime(r.recordedFrames, r.config.fps) >= r.config.duration
            /\ r.recorder = "recording"
    THEN [r EXCEPT !.recordedFrames = @ + 1, !.recorder = "inactive", !.stopQueued = TRUE,
                   !.fresh = FALSE]
    ELSE [r EXCEPT !.recordedFrames = @ + 1, !.fresh = FALSE]

\* the gaps between two animation frames, in milliseconds
FrameGaps == {20}
MaxClock == 80

FrameWritten(fr, params) == frame' = fr /\ uniformData' = frameData(fr, params)

\* the toBlob calls a frame makes: one while a capture is pending
frameBlobs(g) == IF g.capturePending > 0 THEN 1 ELSE 0

\* render(time), called back with the clock of the frame: the frame is
\* requested again when something is missing or the canvas has no size, the
\* loop ends when a validation error was reported, and else the frame is
\* drawn inside an error scope, exported when a capture is pending, and the
\* next frame requested
Render ==
    /\ comp.request
    /\ clock < MaxClock
    /\ \E gap \in FrameGaps : clock' = clock + gap
    /\ IF ~ready(refs)
       THEN UNCHANGED <<ui, rec, frame, uniformData, comp>>
       ELSE IF comp.errorReported
       THEN /\ comp' = [comp EXCEPT !.request = FALSE, !.halted = TRUE]
            /\ UNCHANGED <<ui, rec, frame, uniformData>>
       ELSE IF frameSize(ui, rec)[1] <= 0 \/ frameSize(ui, rec)[2] <= 0
       THEN UNCHANGED <<ui, rec, frame, uniformData, comp>>
       ELSE /\ FrameWritten(frameOf(clock, ui, rec, frame),
                            frameParams(frameTime(clock, ui, rec), rec))
            /\ rec' = recordedFrame(rec)
            /\ ui' = [ui EXCEPT !.blobs = @ + frameBlobs(ui),
                                !.exports = @ + frameBlobs(ui)]
            /\ comp' = [comp EXCEPT !.scopes = @ + 1]
    /\ UNCHANGED <<kernelVars, refs, gpu, compiles>>

\* device.popErrorScope() of a frame has resolved, with an error or with null
ScopeResolved ==
    /\ comp.scopes > 0
    /\ \E error \in BOOLEAN :
           IF error /\ ~comp.errorReported
           THEN comp' = [comp EXCEPT !.scopes = @ - 1, !.errorReported = TRUE,
                                    !.overlay = "runtime"]
           ELSE comp' = [comp EXCEPT !.scopes = @ - 1]
    /\ UNCHANGED <<kernelVars, frameVars, refs, gpu, compiles>>

VideoConfigs ==
    {[fps |-> 60, duration |-> 30000, shotType |-> "orbit", orchestrate |-> FALSE],
     [fps |-> 24, duration |-> 5 * ONE, shotType |-> "chaos", orchestrate |-> TRUE]}

\* startVideo(config); recorder.start() throws on a recorder that is recording
startVideo(r, config, requestFrame) ==
    IF requestFrame /\ r.recorder = "recording"
    THEN [r EXCEPT !.config = config, !.recordedFrames = 0, !.fresh = TRUE]
    ELSE [r EXCEPT !.config = config, !.recordedFrames = 0, !.recorder = "recording",
                   !.isRecording = TRUE, !.fresh = TRUE]

StartVideo ==
    /\ \E config \in VideoConfigs : rec' = startVideo(rec, config, ui.requestFrame)
    /\ UNCHANGED <<kernelVars, mountVars, clock, ui, frame, uniformData>>

\* stopVideo()
StopVideo ==
    /\ rec.recorder = "recording"
    /\ rec' = [rec EXCEPT !.recorder = "inactive", !.stopQueued = TRUE]
    /\ UNCHANGED <<kernelVars, mountVars, clock, ui, frame, uniformData>>

\* recorder.onstop
RecorderStopped ==
    /\ rec.stopQueued
    /\ rec' = [rec EXCEPT !.isRecording = FALSE, !.stopQueued = FALSE]
    /\ UNCHANGED <<kernelVars, mountVars, clock, ui, frame, uniformData>>

\* capture(quality), and the toBlob callback of the frame that served it
Capture ==
    /\ ui.capturePending = 0
    /\ ui' = [ui EXCEPT !.capturePending = 1, !.exports = 0]
    /\ UNCHANGED <<kernelVars, mountVars, clock, rec, frame, uniformData>>

CaptureDone ==
    /\ ui.blobs > 0
    /\ ui' = [ui EXCEPT !.capturePending = 0, !.blobs = @ - 1]
    /\ UNCHANGED <<kernelVars, mountVars, clock, rec, frame, uniformData>>

AudioBytes == {<<128, 255, 64, 32>>}

\* toggleAudio(); the microphone may be refused
ToggleAudio ==
    /\ IF ui.audioOn
       THEN ui' = [ui EXCEPT !.audioOn = FALSE]
       ELSE \E granted \in BOOLEAN, bytes \in AudioBytes :
                ui' = [ui EXCEPT !.audioOn = granted, !.levels = bytes]
    /\ UNCHANGED <<kernelVars, mountVars, clock, rec, frame, uniformData>>

\* ------------------------------------------------ the host: orbit controls
\* handleMouseDown(e)
handleMouseDown(g, x, y) ==
    [g EXCEPT !.mouse[3] = ONE,
              !.camera.isDragging = TRUE, !.camera.lastX = x, !.camera.lastY = y,
              !.events = Append(@, "down")]

\* theta -= dx * 0.005; phi = max(0.1, min(PI - 0.1, phi + dy * 0.005))
dragged(cam, x, y) ==
    [cam EXCEPT !.theta = @ - (x - cam.lastX) * 5000,
                !.phi = Max(100000, Min(PI - 100000, @ + (y - cam.lastY) * 5000)),
                !.lastX = x, !.lastY = y]

\* handleMouseMove(e)
handleMouseMove(g, x, y) ==
    [g EXCEPT !.mouse[1] = x * ONE, !.mouse[2] = y * ONE,
              !.camera = IF @.isDragging THEN dragged(@, x, y) ELSE @,
              !.events = Append(@, "move")]

\* handleMouseUp(), the handler of mouse-up and of mouse-leave
handleMouseUp(g) ==
    [g EXCEPT !.mouse[3] = 0, !.camera.isDragging = FALSE,
              !.events = Append(@, "up")]

handleWheelUnclamped(g, deltaY) ==
    [g EXCEPT !.camera.radius = @ + deltaY * 5000,
              !.events = Append(@, "wheel")]

\* handleWheel(e): radius = max(2.0, min(20.0, radius + deltaY * 0.005))
handleWheel(g, deltaY) ==
    [g EXCEPT !.camera.radius = Max(2 * ONE, Min(20 * ONE, @ + deltaY * 5000)),
              !.events = Append(@, "wheel")]

\* the positions of the pointer and the wheel deltas of the events
PointerXs == {100, 400}
PointerYs == {50, 150, 750}
WheelDeltas == {-1000, 200, 4000}
MaxEvents == 4

MouseDown ==
    /\ Len(ui.events) < MaxEvents
    /\ \E x \in PointerXs, y \in PointerYs : ui' = handleMouseDown(ui, x, y)
    /\ UNCHANGED <<kernelVars, mountVars, clock, rec, frame, uniformData>>

MouseMove ==
    /\ Len(ui.events) < MaxEvents
    /\ \E x \in PointerXs, y \in PointerYs : ui' = handleMouseMove(ui, x, y)
    /\ UNCHANGED <<kernelVars, mountVars, clock, rec, frame, uniformData>>

\* onMouseUp and onMouseLeave
MouseUp ==
    /\ Len(ui.events) < MaxEvents
    /\ ui' = handleMouseUp(ui)
    /\ UNCHANGED <<kernelVars, mountVars, clock, rec, frame, uniformData>>

Wheel ==
    /\ Len(ui.events) < MaxEvents
    /\ \E deltaY \in WheelDeltas : ui' = handleWheel(ui, deltaY)
    /\ UNCHANGED <<kernelVars, mountVars, clock, rec, frame, uniformData>>

\* ------------------------------------- the orbit controls: SpecCamera
InitCamera ==
    /\ u = DefaultParams /\ uv = <<HALF, HALF>> /\ pc = "idle"
    /\ rm = NoRaymarch /\ fs = fsEnter /\ aof = NoAO /\ sh = NoShadow /\ gl = NoGlow
    /\ li = NoLight /\ out = NoOutput /\ seen = <<>> /\ fold = NoFold
    /\ FramesIdle /\ MountIdle

NextCamera ==
    \/ MouseDown
    \/ MouseMove
    \/ MouseUp
    \/ Wheel

SpecCamera == InitCamera /\ [][NextCamera]_vars

\* ------------------------------------------- the component's life: SpecMount
InitMount ==
    /\ u = DefaultParams /\ uv = <<HALF, HALF>> /\ pc = "idle"
    /\ rm = NoRaymarch /\ fs = fsEnter /\ aof = NoAO /\ sh = NoShadow /\ gl = NoGlow
    /\ li = NoLight /\ out = NoOutput /\ seen = <<>> /\ fold = NoFold
    /\ FramesIdle /\ MountIdle

NextMount ==
    \/ AdapterResolved
    \/ DeviceResolved
    \/ TextureResolved
    \/ CompileInfo
    \/ CompileScope
    \/ InitCompiled
    \/ ShaderEdit
    \/ LoadTexture
    \/ Unmount

SpecMount == InitMount /\ [][NextMount]_vars

\* ------------------------------------- the render loop of a mount: SpecLoop
InitLoop == InitMount

NextLoop ==
    \/ AdapterResolved
    \/ DeviceResolved
    \/ TextureResolved
    \/ CompileInfo
    \/ CompileScope
    \/ InitCompiled
    \/ ShaderEdit
    \/ Unmount
    \/ Render
    \/ ScopeResolved

SpecLoop == InitLoop /\ [][NextLoop]_vars

\* ------------------------------------------------ frames on their own: SpecFrames
\* the canvas on the page, or a canvas that has no size yet; a browser with or
\* without requestFrame on its capture track
Pages == {<<800, 600, TRUE>>, <<800, 600, FALSE>>, <<0, 0, TRUE>>}

InitFrames ==
    /\ u = DefaultParams /\ uv = <<HALF, HALF>> /\ pc = "idle"
    /\ rm = NoRaymarch /\ fs = fsEnter /\ aof = NoAO /\ sh = NoShadow /\ gl = NoGlow
    /\ li = NoLight /\ out = NoOutput /\ seen = <<>> /\ fold = NoFold
    /\ clock = 0 /\ rec = NoRecording /\ frame = NoFrame /\ uniformData = ZeroData
    /\ MountRunning
    /\ \E page \in Pages :
           ui = [DefaultUI EXCEPT !.client = <<page[1], page[2]>>,
                                  !.mouse = <<310 * ONE, 200 * ONE, ONE>>,
                                  !.requestFrame = page[3]]

NextFrames ==
    \/ Render
    \/ StartVideo
    \/ StopVideo
    \/ RecorderStopped
    \/ ToggleAudio

SpecFrames == InitFrames /\ [][NextFrames]_vars

\* ------------------------------------ frames and captures: SpecCapture
\* the running component on the page, the GPU reporting frame errors or not
InitCapture ==
    /\ u = DefaultParams /\ uv = <<HALF, HALF>> /\ pc = "idle"
    /\ rm = NoRaymarch /\ fs = fsEnter /\ aof = NoAO /\ sh = NoShadow /\ gl = NoGlow
    /\ li = NoLight /\ out = NoOutput /\ seen = <<>> /\ fold = NoFold
    /\ FramesIdle /\ MountRunning

NextCapture ==
    \/ Render
    \/ ScopeResolved
    \/ Capture
    \/ CaptureDone

SpecCapture == InitCapture /\ [][NextCapture]_vars

\* ------------------------------------------- raymarch on its own: SpecRay
\* rays handed to raymarch: toward the fractal, away from all geometry, straight
\* down onto the floor from beyond the far bound, along the floor, onto the floor,
\* and from a point as far from the fractal surface as from the floor
TestRays ==
    { [ro |-> <<0, 0, 20 * ONE>>, rd |-> <<0, 0, -ONE>>],
      [ro |-> <<0, 0, 20 * ONE>>, rd |-> <<0, ONE, 0>>],
      [ro |-> <<50 * ONE, 27800100, 0>>, rd |-> <<0, -ONE, 0>>],
      [ro |-> <<50 * ONE, -2150000, 0>>, rd |-> <<ONE, 0, 0>>],
      [ro |-> <<10 * ONE, 0, 10 * ONE>>, rd |-> <<0, -ONE, 0>>],
      [ro |-> <<3 * ONE, -44376, 0>>, rd |-> <<0, -ONE, 0>>] }

RayParams ==
    { DefaultParams,
      [DefaultParams EXCEPT !.time = 1500000, !.audio = <<300000, 500000, 200000, 100000>>] }

InitRay ==
    /\ u \in RayParams
    /\ uv = <<HALF, HALF>>
    /\ pc = "raymarch"
    /\ \E r \in TestRays : rm = raymarchEnter(r.ro, r.rd, "test")
    /\ fs = fsEnter /\ aof = NoAO /\ sh = NoShadow /\ gl = NoGlow
    /\ li = NoLight /\ out = NoOutput /\ seen = <<>> /\ fold = NoFold /\ HostIdle

NextRay == RaymarchStep

SpecRay == InitRay /\ [][NextRay]_vars

\* --------------------------------------------------- getAO on its own: SpecAO
\* points handed to getAO: just off the fractal's face, just above the floor,
\* below the floor, in open space, and on the fractal's face
AOPoints ==
    { <<0, 0, 900000>>, <<3 * ONE, -2190000, ONE>>, <<0, -3 * ONE, 0>>,
      <<0, 0, 20 * ONE>>, <<461309, -90446, 844425>> }

\* normals handed to getAO: of length 1, and finite vectors of another length
AONormals ==
    { <<0, ONE, 0>>, <<0, 0, ONE>>, <<0, -ONE, 0>>, <<577350, 577350, 577350>>,
      <<0, 2 * ONE, 0>>, <<ONE, ONE, ONE>> }

InitAO ==
    /\ u \in RayParams
    /\ uv = <<HALF, HALF>>
    /\ pc = "ao"
    /\ \E p \in AOPoints, n \in AONormals : aof = aoEnter(p, n)
    /\ rm = NoRaymarch /\ fs = fsEnter /\ sh = NoShadow /\ gl = NoGlow
    /\ li = NoLight /\ out = NoOutput /\ seen = <<>> /\ fold = NoFold /\ HostIdle

NextAO == AOStep

SpecAO == InitAO /\ [][NextAO]_vars

\* ------------------------------------------- getShadow on its own: SpecShadow
\* shadow rays: from the fractal's face and from the floor toward light 0, from
\* the floor under the fractal, and from below the floor straight up
ShadowRays ==
    { [ro |-> <<461423, -90332, 854423>>, rd |-> <<-406746, 841227, 356221>>],
      [ro |-> <<3 * ONE, -2200000, ONE>>, rd |-> lightDir(1, <<3 * ONE, -2200000, ONE>>)],
      [ro |-> <<200000, -2190000, -300000>>, rd |-> <<0, ONE, 0>>],
      [ro |-> <<0, -3 * ONE, 0>>, rd |-> <<0, ONE, 0>>] }

\* tmin, tmax and k: those of renderPBR, a tmax below tmin, and a negative k
ShadowRanges ==
    { [tmin |-> 50000, tmax |-> 6 * ONE, k |-> 16 * ONE],
      [tmin |-> 50000, tmax |-> 10000, k |-> 16 * ONE],
      [tmin |-> 2 * ONE, tmax |-> 40 * ONE, k |-> -4 * ONE] }

\* the calls of getShadow: every ray with every range, and rays from the floor
\* with a tmin of 0, for which the first quotient divides by zero
ShadowCalls ==
    { shadowEnter(r.ro, r.rd, g.tmin, g.tmax, g.k) : r \in ShadowRays, g \in ShadowRanges }
    \cup { shadowEnter(<<3 * ONE, -2200000, ONE>>, rd, 0, 6 * ONE, 16 * ONE) :
              rd \in {lightDir(1, <<3 * ONE, -2200000, ONE>>), <<0, ONE, 0>>} }

InitShadow ==
    /\ u = DefaultParams
    /\ uv = <<HALF, HALF>>
    /\ pc = "shadow"
    /\ sh \in ShadowCalls
    /\ rm = NoRaymarch /\ fs = fsEnter /\ aof = NoAO /\ gl = NoGlow
    /\ li = NoLight /\ out = NoOutput /\ seen = <<>> /\ fold = NoFold /\ HostIdle

NextShadow == ShadowStep

SpecShadow == InitShadow /\ [][NextShadow]_vars

\* ------------------------------------- the light loop on its own: SpecLight
LightSample(f) == li' = f

\* one pass of for(var i=0; i<3; i++) in renderPBR
LightStep ==
    /\ pc = "light"
    /\ lightLoops(li)
    /\ IF lightDist(li.i, li.p) = 0
       THEN \E L \in IndeterminateDir, adds \in IndeterminateTerm :
                LightSample(lightIterWith(li, L, adds))
       ELSE LightSample(lightIter(li))
    /\ UNCHANGED <<hostVars, seen, fold, u, uv, pc, rm, fs, aof, sh, gl, out>>

\* shaded points: on the fractal, on the floor, and at the three light positions
LightPoints ==
    {<<0, 0, 900000>>, <<3 * ONE, -2190000, ONE>>, <<461309, -90446, 844425>>,
     LIGHTS[1].pos, LIGHTS[2].pos, LIGHTS[3].pos}

LightNormals == {<<0, ONE, 0>>, <<0, 0, ONE>>, <<577350, 577350, 577350>>}

LightViews == {<<0, 0, ONE>>, <<0, 600000, 800000>>}

LightRoughness == {50000, 350000, ONE}

\* what getShadow returns for light 0: dark, penumbra, lit
LightShadows == {0, 400000, ONE}

InitLight ==
    /\ u = DefaultParams /\ uv = <<HALF, HALF>> /\ pc = "light"
    /\ rm = NoRaymarch /\ fs = fsEnter /\ aof = NoAO /\ sh = NoShadow /\ gl = NoGlow
    /\ out = NoOutput /\ seen = <<>> /\ fold = NoFold /\ HostIdle
    /\ \E p \in LightPoints, n \in LightNormals, v \in LightViews,
          roughness \in LightRoughness, metallic \in {0, ONE}, shadow \in LightShadows :
           li = lightEnter(p, n, v, <<800000, 800000, 850000>>, metallic, roughness,
                           shadow)

NextLight == LightStep

SpecLight == InitLight /\ [][NextLight]_vars

\* --------------------------------- the KIFS loop on its own: SpecFold
\* one pass of for(var i = 0; i < iter; i++) in sdFractal
FoldStep ==
    /\ pc = "fold"
    /\ foldLoops(fold)
    /\ fold' = foldIter(u, fold)
    /\ UNCHANGED <<hostVars, seen, u, uv, pc, rm, fs, aof, sh, gl, li, out>>

\* the components of the vectors folded: both signs, zero, ties, every order
FoldCoords == {-1500000, -300000, 0, 300000, 700000, 2 * ONE}

FoldParams ==
    {DefaultParams,
     [DefaultParams EXCEPT !.time = 30000, !.detail = 100000,
                           !.audio = <<300000, 500000, 200000, 100000>>]}

InitFold ==
    /\ uv = <<HALF, HALF>> /\ pc = "fold"
    /\ rm = NoRaymarch /\ fs = fsEnter /\ aof = NoAO /\ sh = NoShadow /\ gl = NoGlow
    /\ li = NoLight /\ out = NoOutput /\ seen = <<>> /\ HostIdle
    /\ u \in FoldParams
    /\ \E x \in FoldCoords, y \in FoldCoords, z \in FoldCoords :
           fold = foldEnter(<<x, y, z>>)

NextFold == FoldStep

SpecFold == InitFold /\ [][NextFold]_vars

\* ------------------------------------------- getGlow on its own: SpecGlow
\* rays from the start-up camera, marched for arcs up to maxT: below the start
\* of the march, inside its dither, at a surface, and beyond the 15.0 cap
GlowRays == {<<-461309, -406376, -788962>>, <<0, 0, -ONE>>, <<-363809, -10057, -931420>>}

GlowRanges == {300000, 550000, 650000, 3 * ONE, 20 * ONE, FAR}

GlowParams ==
    {[DefaultParams EXCEPT !.time = 30000], [DefaultParams EXCEPT !.time = 1370000]}

InitGlow ==
    /\ uv = <<HALF, HALF>> /\ pc = "glowloop"
    /\ rm = NoRaymarch /\ fs = fsEnter /\ aof = NoAO /\ sh = NoShadow
    /\ li = NoLight /\ out = NoOutput /\ seen = <<>> /\ fold = NoFold /\ HostIdle
    /\ \E ub \in GlowParams, rd \in GlowRays, maxT \in GlowRanges :
           u = ub /\ gl = glowEnter(ub, ub.cameraPos, rd, maxT)

NextGlow == GlowStep

SpecGlow == InitGlow /\ [][NextGlow]_vars

\* ------------------------------------------------ one invocation: Spec
\* the fragments rendered, each a parameter block and the UV of a pixel of the
\* 800 x 600 target: floor, fractal and sky pixels under the start-up
\* parameters, in high-quality mode (two samples, reflections), without arcs,
\* with the strongest grain and arcs the host's sliders allow, with time and
\* audio running, and with detail and metallic set beyond their sliders
Cases ==
    { [u |-> DefaultParams, uv |-> <<HALF, 100000>>],
      [u |-> DefaultParams, uv |-> <<HALF, HALF>>],
      [u |-> DefaultParams, uv |-> <<700000, 700000>>],
      [u |-> [DefaultParams EXCEPT !.isRendering = ONE], uv |-> <<HALF, 100000>>],
      [u |-> [DefaultParams EXCEPT !.isRendering = ONE], uv |-> <<300000, 100000>>],
      [u |-> [DefaultParams EXCEPT !.isRendering = ONE], uv |-> <<300000, 300000>>],
      [u |-> [DefaultParams EXCEPT !.isRendering = ONE], uv |-> <<HALF, 300000>>],
      [u |-> [DefaultParams EXCEPT !.isRendering = ONE, !.electricIntensity = 0],
       uv |-> <<HALF, 300000>>],
      [u |-> [DefaultParams EXCEPT !.grainStrength = 200000], uv |-> <<300000, 900000>>],
      [u |-> [DefaultParams EXCEPT !.time = 30000, !.grainStrength = 200000,
                                   !.audio = <<300000, 500000, 200000, 100000>>,
                                   !.isRendering = ONE],
       uv |-> <<HALF, HALF>>],
      [u |-> [DefaultParams EXCEPT !.detail = 1200000, !.metallic = 1500000],
       uv |-> <<HALF, HALF>>],
      [u |-> [DefaultParams EXCEPT !.electricIntensity = 30 * ONE],
       uv |-> <<650000, 700000>>],
      [u |-> [DefaultParams EXCEPT !.time = 30000, !.isRendering = 2 * ONE,
                                   !.detail = 100000],
       uv |-> <<550000, 450000>>],
      [u |-> [DefaultParams EXCEPT !.electricIntensity = 10000],
       uv |-> <<300000, 900000>>] }

Init ==
    /\ \E c \in Cases : u = c.u /\ uv = c.uv
    /\ pc = "sample"
    /\ rm = NoRaymarch /\ fs = fsEnter /\ aof = NoAO /\ sh = NoShadow
    /\ gl = NoGlow
    /\ li = NoLight /\ out = NoOutput /\ seen = <<>> /\ fold = NoFold /\ HostIdle

Next ==
    \/ SampleBegin
    \/ RaymarchStep
    \/ Shade
    \/ AOStep
    \/ Material
    \/ ShadowStep
    \/ Lit
    \/ Reflected
    \/ ReflectLight
    \/ ReflectBlend
    \/ Fog
    \/ GlowBegin
    \/ GlowStep
    \/ Accumulate
    \/ Post

Spec == Init /\ [][Next]_vars

\* ------------------------------------- invocation after invocation: SpecTwice
\* the fragments evaluated one after another
TwiceCases ==
    { [u |-> DefaultParams, uv |-> <<HALF, HALF>>],
      [u |-> DefaultParams, uv |-> <<700000, 700000>>],
      [u |-> [DefaultParams EXCEPT !.isRendering = ONE], uv |-> <<HALF, 100000>>] }

MaxEvals == 3

\* The next invocation of fs_main, for a fragment of this frame or of a later
\* one.  It starts from var finalColor = vec3f(0.0) and i = 0; what the earlier
\* invocation left in the other locals and in the frames of its calls is still
\* there.
Again ==
    /\ pc = "done"
    /\ Len(seen) < MaxEvals - 1
    /\ seen' = Append(seen, [u |-> u, uv |-> uv, rgba |-> out.rgba])
    /\ \E c \in TwiceCases : u' = c.u /\ uv' = c.uv
    /\ fs' = [fs EXCEPT !.finalColor = fsEnter.finalColor, !.i = fsEnter.i,
                        !.calls = fsEnter.calls, !.offsets = fsEnter.offsets,
                        !.cols = fsEnter.cols]
    /\ pc' = "sample"
    /\ UNCHANGED <<hostVars, fold, rm, aof, sh, gl, li, out>>

InitTwice ==
    /\ \E c \in TwiceCases : u = c.u /\ uv = c.uv
    /\ pc = "sample"
    /\ rm = NoRaymarch /\ fs = fsEnter /\ aof = NoAO /\ sh = NoShadow
    /\ gl = NoGlow
    /\ li = NoLight /\ out = NoOutput /\ seen = <<>> /\ fold = NoFold /\ HostIdle

NextTwice == Next \/ Again

SpecTwice == InitTwice /\ [][NextTwice]_vars

\* --------------------------------------------------- claims about raymarch
\* C2: raymarch returns hit-flag 1 exactly when some evaluated sample had a
\* scene distance below EPSILON; the returned material is then the id map gave
\* at that sample (Fractal or Floor) and t the distance of that sample;
\* otherwise it returns material -1 and hit-flag 0.  t >= 0 in both cases, and
\* no step of the march decreases t.
C2_ResultAtReturn ==
    rm.done =>
        /\ (rm.res[3] = ONE) <=> rm.below
        /\ rm.below => /\ rm.last.d < EPSILON
                       /\ rm.res[2] = rm.last.id
                       /\ rm.last.id \in {FRACTAL, FLOOR}
                       /\ rm.res[1] = rm.last.t
        /\ ~rm.below => rm.res[2] = -ONE /\ rm.res[3] = 0
        /\ rm.res[1] >= 0

C2_RaymarchResult ==
    [](C2_ResultAtReturn) /\ [][pc = "raymarch" => rm'.f.t >= rm.f.t]_vars

C2_Witness ==
    rm.done /\ rm.below /\ rm.res[3] = ONE /\ rm.res[2] = FRACTAL /\ rm.evals > 1

\* C3 as stated: a ray that never comes within EPSILON of geometry returns
\* hit = false with t equal to the far bound 30.
C3_MissAtFarBound ==
    (rm.done /\ ~rm.below) => (rm.res[3] = 0 /\ rm.res[1] = FAR)

\* C3 amended: such a ray returns hit = false and material -1, and t is the
\* distance the march had reached when it stopped, never clamped to 30: above
\* 30 when the far break stopped it (the ray from (0,0,20) along (0,1,0)),
\* otherwise the distance after all 160 samples.
C3_MissReturnsReachedT ==
    (rm.done /\ ~rm.below) =>
        /\ rm.res[3] = 0 /\ rm.res[2] = -ONE
        /\ IF rm.last.t > FAR
           THEN rm.res[1] = rm.last.t
           ELSE rm.evals = RAYMARCH_ITERS /\ rm.res[1] >= rm.last.t
        /\ (rm.ro = <<0, 0, 20 * ONE>> /\ rm.rd = <<0, ONE, 0>>) => rm.res[1] > FAR

C3_Witness ==
    /\ rm.done /\ ~rm.below
    /\ rm.ro = <<0, 0, 20 * ONE>> /\ rm.rd = <<0, ONE, 0>>
    /\ rm.res[3] = 0 /\ rm.res[1] > FAR

C5_SampleAgrees(s, fd, fl) ==
    /\ (s.id = FRACTAL) <=> (fd < fl)
    /\ s.id \in {FRACTAL, FLOOR}
    /\ s.id = FRACTAL => s.d = fd
    /\ s.id = FLOOR => s.d = fl
    /\ s.d = Min(fd, fl)

\* C5: map returns (fractal distance, Fractal) exactly when the biased fractal
\* distance sdFractal(p) - 0.01 is strictly below the floor distance p.y + 2.2,
\* and (floor distance, Floor) otherwise, a tie included; the distance is the
\* minimum of the two and the id is 1 or 2.
C5_MapTieBreak ==
    rm.evals > 0 =>
        C5_SampleAgrees(rm.last, sdFractal(u, rm.last.pos) - 10000,
                        rm.last.pos[2] + 2200000)

\* a sample as far from the fractal as from the floor was given to the floor
C5_Witness ==
    /\ rm.evals > 0
    /\ sdFractal(u, rm.last.pos) - 10000 = rm.last.pos[2] + 2200000
    /\ rm.last.id = FLOOR

\* ------------------------------------------------- claims about fs_main
\* the counters of the loops stay within the bounds of their loop tests, and a
\* getAO call that has returned took all of its samples
C1_LoopBounds ==
    /\ rm.evals <= 160
    /\ gl.evals <= 35
    /\ sh.evals <= 32
    /\ aof.evals <= 5
    /\ pc \in {"material", "rlight"} => aof.evals = 5
    /\ fs.i <= 2

\* an invocation that has not returned can take its next step: it is inside a
\* loop only while the test of that loop holds
C1_CanStep ==
    /\ pc \in {"sample", "raymarch", "shade", "ao", "material", "shadow", "pbr",
               "reflected", "rao", "rlight", "rshadow", "rpbr", "fog", "glow",
               "glowloop", "accum", "post", "done"}
    /\ pc = "raymarch" => raymarchLoops(rm.f)
    /\ pc \in {"ao", "rao"} => aoLoops(aof)
    /\ pc \in {"shadow", "rshadow"} => shadowLoops(sh)
    /\ pc = "glowloop" => glowLoops(gl)

\* the steps a sample can still take from the position at, before it is added
\* to finalColor: each loop counts for the passes it has left
C1_StepsLeft(at) ==
    CASE at = "accum" -> 1
      [] at = "glowloop" -> (35 - gl.i) + 1
      [] at = "glow" -> 37
      [] at = "fog" -> 38
      [] at = "rpbr" -> 39
      [] at = "rshadow" -> (32 - sh.i) + 39
      [] at = "rlight" -> 72
      [] at = "rao" -> (5 - aof.i) + 72
      [] at = "reflected" -> 78
      [] at = "reflect" -> (160 - rm.f.i) + 78
      [] at = "pbr" -> 239
      [] at = "shadow" -> (32 - sh.i) + 239
      [] at = "material" -> 272
      [] at = "ao" -> (5 - aof.i) + 272
      [] at = "shade" -> 278
      [] at = "primary" -> (160 - rm.f.i) + 278
      [] at = "sample" -> 439

\* a bound on the steps the invocation can still take: those of the sample at
\* hand, 439 for every sample to come, and the post-processing
C1_Rank ==
    CASE pc = "done" -> 0
      [] pc = "post" -> 1
      [] OTHER -> C1_StepsLeft(IF pc = "raymarch" THEN rm.caller ELSE pc)
                  + (aaSamples(u) - fs.i - 1) * 439 + 1

\* C1: every loop of the kernel is bounded and an invocation of fs_main always
\* terminates: raymarch evaluates map at most 160 times, getGlow takes at most
\* 35 samples, getShadow at most 32 steps, getAO exactly 5 samples, and the
\* anti-aliasing loop runs at most 2 times.  Termination: an invocation that
\* has not returned can step, and every step lowers the bound C1_Rank on the
\* steps left, which is never negative.
C1_Terminates ==
    /\ [](C1_LoopBounds /\ C1_CanStep /\ C1_Rank >= 0)
    /\ [][C1_Rank' < C1_Rank]_vars

\* an invocation has returned after two samples, its last getAO, getShadow and
\* getGlow calls having run to the end of their loops
C1_Witness ==
    /\ pc = "done" /\ fs.i = 2 /\ C1_Rank = 0
    /\ aof.evals = 5 /\ sh.evals = 32 /\ gl.evals = 35 /\ rm.evals > 1

\* what holds of the reflection pass in every state
C6_ReflectionGuarded ==
    /\ fs.refl <= 1
    /\ fs.refl = 1 => (u.isRendering > HALF /\ fs.hit > HALF /\ fs.roughness < HALF)
    /\ (pc = "raymarch" /\ rm.caller = "reflect") => fs.refl = 1
    /\ pc \in {"reflected", "rao", "rlight", "rshadow", "rpbr"} =>
           (fs.refl = 1 /\ rm.caller = "reflect" /\ rm.done)
    /\ pc \in {"rao", "rlight", "rshadow", "rpbr"} => rm.res[3] > HALF
    /\ pc \in {"rshadow", "rpbr"} => fs.pbrIn.roughness = HALF
    /\ fs.blended => (fs.refl = 1 /\ rm.caller = "reflect" /\ rm.res[3] > HALF)

\* C6: reflections have depth exactly 1.  For each anti-aliasing sample at most
\* one secondary raymarch is performed, and only when isRendering > 0.5, the
\* primary ray hit and the shaded roughness is below 0.5; the reflected hit is
\* shaded with roughness 0.5 and its shading starts no further march (it goes
\* on to the blend and then to the fog); the reflection is blended in only if
\* the secondary ray hit.
C6_ReflectionDepthOne ==
    /\ [](C6_ReflectionGuarded)
    /\ [][/\ pc \in {"rao", "rlight", "rshadow"} => rm' = rm
          /\ pc = "rpbr" => (rm' = rm /\ pc' = "fog" /\ fs'.blended)
          /\ fs'.blended /\ ~fs.blended => pc = "rpbr"]_vars

\* a reflection was marched, hit, was shaded and has been blended in
C6_Witness ==
    pc = "fog" /\ fs.blended /\ fs.refl = 1 /\ fs.calls >= 2

\* C7: the arc pass adds exactly zero colour to a sample when
\* electricIntensity is 0, and exactly zero when none of the points getGlow
\* sampled along the ray has a fractal distance below 0.4.
C7_GlowGated ==
    pc = "accum" =>
        /\ u.electricIntensity = 0 => fs.col = fs.preGlow
        /\ (fs.glowRan /\ gl.near = 0) => (gl.acc = <<0, 0, 0>> /\ fs.col = fs.preGlow)
        /\ fs.glowRan => fs.col = VAdd(fs.preGlow, gl.acc)

\* getGlow sampled a ray that stayed away from the fractal and added nothing
C7_Witness ==
    /\ pc = "accum" /\ fs.glowRan /\ gl.evals = 35 /\ gl.near = 0
    /\ fs.col = fs.preGlow /\ fs.hit > HALF

\* C8: fs_main returns alpha exactly 1.0 and every colour channel within
\* [0,1]: the clamp of the tone map comes after every additive contribution,
\* the grain included, so that the gamma step receives a value of [0,1] and
\* keeps it there.
C8_OutputRange ==
    pc = "done" =>
        /\ out.rgba[4] = ONE
        /\ \A k \in 1..3 : /\ 0 <= out.mapped[k] /\ out.mapped[k] <= ONE
                            /\ 0 <= out.rgba[k] /\ out.rgba[k] <= ONE

\* the grain made every channel negative before the tone map, and the returned
\* colour is in range
C8_Witness ==
    /\ pc = "done" /\ u.grainStrength > 0
    /\ \A k \in 1..3 : out.pre[k] < 0 /\ out.rgba[k] > 0 /\ out.rgba[k] <= ONE

\* C9 as stated: the tone-mapping step is monotonically non-decreasing in the
\* channel value over every value that reaches it, the negative values left by
\* the grain included, and maps 0 to 0.  The three channels of a fragment are
\* values that reach it.
C9_ToneMapMonotone ==
    pc = "done" =>
        /\ \A j, k \in 1..3 : out.pre[j] <= out.pre[k] => out.mapped[j] <= out.mapped[k]
        /\ \A k \in 1..3 : out.pre[k] = 0 => out.mapped[k] = 0

\* C10 as stated: the roughness and metallic handed to renderPBR are always
\* within [0,1], for the Fractal and for the Floor, whatever finite detail and
\* metallic the parameter block holds.
C10_PbrInputsInRange ==
    fs.calls > 0 =>
        /\ 0 <= fs.pbrIn.roughness /\ fs.pbrIn.roughness <= ONE
        /\ 0 <= fs.pbrIn.metallic /\ fs.pbrIn.metallic <= ONE


\* ------------------------------------------- claims about getAO, getShadow
\* C11 as stated: getAO returns a value within [0,1] for all finite inputs, the
\* point p and the vector n.
C11_AOInRange ==
    ~aoLoops(aof) => (0 <= aoResult(aof) /\ aoResult(aof) <= ONE)

\* C11 amended: getAO returns a value within [0,1] for every finite point p and
\* every n of length 1, which is what calcNormal hands to it.
C11_AOInRangeUnitNormal ==
    (~aoLoops(aof) /\ Abs(Length(aof.n) - ONE) <= 1) =>
        (0 <= aoResult(aof) /\ aoResult(aof) <= ONE)

\* getAO returned for a unit normal in open space, where the occlusion term is
\* negative and the clamp acts
C11_Witness ==
    /\ ~aoLoops(aof) /\ aof.evals = 5 /\ aof.n = <<0, ONE, 0>> /\ aof.occ < 0
    /\ aoResult(aof) = ONE

\* what holds of a getShadow call in every state: t starts at tmin, the loop
\* is left as soon as res < 0.001 or t > tmax, and the returned value is in [0,1]
C12_ShadowState ==
    /\ sh.evals = 0 => sh.t = sh.tmin
    /\ sh.evals > 0 => (sh.brk <=> (sh.res < 1000 \/ sh.t > sh.tmax))
    /\ ~shadowLoops(sh) => (0 <= shadowResult(sh) /\ shadowResult(sh) <= ONE)

\* C12: getShadow returns a value within [0,1] for all finite inputs; its
\* march parameter t starts at tmin and strictly increases by a step in
\* [0.002, 0.2] in each iteration, and the loop exits as soon as res < 0.001
\* or t > tmax.
C12_ShadowMarch ==
    /\ [](C12_ShadowState)
    /\ [][/\ sh'.t - sh.t >= 2000 /\ sh'.t - sh.t <= 200000
          /\ sh'.evals = sh.evals + 1
          /\ ~sh.brk]_sh

\* a shadow ray that started inside the floor returned 0 after one iteration,
\* its res negative before the clamp
C12_Witness ==
    /\ ~shadowLoops(sh) /\ sh.brk /\ sh.evals = 1 /\ sh.res < 0
    /\ shadowResult(sh) = 0 /\ sh.t - sh.tmin = 2000


\* ------------------------------------------------- claims about renderPBR
\* C13: every division of the lighting equations (GGX distribution, Schlick-GGX
\* geometry, specular denominator, inverse-square attenuation) has a divisor that
\* is at least a strictly positive epsilon, at every shaded point, a light
\* position included.
C13_DenominatorsFloored ==
    \A j \in DOMAIN li.dens :
        /\ li.dens[j].ggx >= 10
        /\ li.dens[j].schlickV >= 10
        /\ li.dens[j].schlickL >= 10
        /\ li.dens[j].specular >= 10
        /\ li.dens[j].attenuation >= 1


\* ------------------------------------------------- claims about the host
\* C14: the members of Uniforms lie at bytes 0, 8, 12, 16, 32, 48..60, 64, 80..92,
\* 96..104, 112 and 128, 144 bytes in all with every vec4f on a multiple of 16,
\* and a frame's resolution, time, cameraPos, mouse and audio stand in the
\* 128-float, 512-byte buffer at float index = byte offset / 4 (0-1, 2, 4-6,
\* 8-10, 32-35), where the shader reads them.
C14_LayoutTable ==
    /\ UniformsOffsets
         = <<0, 8, 12, 16, 32, 48, 52, 56, 60, 64, 80, 84, 88, 92, 96, 100, 104, 112, 128>>
    /\ UniformsSize = 144
    /\ \A i \in DOMAIN UniformsMembers :
           UniformsMembers[i].type = "vec4f" => UniformsOffsets[i] % 16 = 0
    /\ BUFFER_BYTES = 4 * BUFFER_FLOATS /\ UniformsSize <= BUFFER_BYTES
    /\ DOMAIN uniformData = 0..(BUFFER_FLOATS - 1)

C17_EditStep ==
    \/ comp'.shaderCode # comp.shaderCode
    \/ {t \in compiles' : t.origin = "edit"} # {t \in compiles : t.origin = "edit"}

C17_ResourcesKept ==
    /\ refs'.device = refs.device /\ refs'.context = refs.context
    /\ refs'.uniformBuffer = refs.uniformBuffer
    /\ refs'.texture = refs.texture /\ refs'.sampler = refs.sampler
    /\ gpu'.made.device = gpu.made.device /\ gpu'.made.context = gpu.made.context
    /\ gpu'.made.uniformBuffer = gpu.made.uniformBuffer
    /\ gpu'.made.texture = gpu.made.texture /\ gpu'.made.sampler = gpu.made.sampler
    /\ gpu'.destroyed = gpu.destroyed

C17_ShaderEditKeepsResources == [][C17_EditStep => C17_ResourcesKept]_vars

C17_Witness ==
    /\ comp.shaderCode = MaxEdits /\ compiles = {}
    /\ gpu.made.module = MaxEdits + 1 /\ gpu.made.pipeline = MaxEdits + 1
    /\ refs.pipeline = MaxEdits + 1 /\ refs.bindGroup > 1
    /\ refs.device = 1 /\ refs.context = 1 /\ refs.uniformBuffer = 1
    /\ refs.texture = 1 /\ refs.sampler = 1
    /\ gpu.made.device = 1 /\ gpu.made.sampler = 1 /\ gpu.destroyed = {}

\* C18: once the component is unmounted and initWebGPU has come to its end,
\* every device the component acquired has been destroyed.
C18_DevicesDestroyed ==
    (~comp.mounted /\ comp.init \in {"done", "returned"} /\ compiles = {})
        => \A d \in 1..gpu.made.device : d \in gpu.destroyed


\* ------------------------------------------------- claims about sampling
C19_Sum(cols) ==
    IF Len(cols) = 0 THEN <<0, 0, 0>>
    ELSE IF Len(cols) = 1 THEN cols[1]
    ELSE VAdd(cols[1], cols[2])

C19_Samples ==
    /\ pc \in {"post", "done"} =>
           /\ Len(fs.cols) = (IF u.isRendering > HALF THEN 2 ELSE 1)
           /\ Len(fs.offsets) = Len(fs.cols)
           /\ u.isRendering <= HALF => fs.offsets[1] = <<0, 0>>
           /\ u.isRendering > HALF => fs.offsets[1] # fs.offsets[2]
           /\ fs.finalColor = C19_Sum(fs.cols)
    /\ pc = "done" =>
           /\ out.avg = VDiv(C19_Sum(fs.cols), Len(fs.cols) * ONE)
           /\ out.pre = VAddS(VScale(out.avg, vignetteOf(u, uv)),
                              Mul(grainNoise(u, uv) - HALF, u.grainStrength))
           /\ out.mapped = toneMapped(out.pre)
           /\ out.rgba = <<gamma(out.mapped[1]), gamma(out.mapped[2]),
                           gamma(out.mapped[3]), ONE>>
    /\ pc # "done" => out = NoOutput

\* C19: fs_main takes one sample with no jitter when isRendering <= 0.5 and two
\* jittered samples when it is above; the colour handed to the post-processing
\* is the sum of the sample colours divided by their number, and vignette,
\* grain, tone map and gamma are applied in that order, once, after the
\* averaging.
C19_SamplesThenPost == [](C19_Samples) /\ [][out' # out => (pc = "post" /\ pc' = "done")]_vars

C19_Witness ==
    /\ pc = "done" /\ Len(fs.cols) = 2 /\ fs.cols[1] # fs.cols[2]
    /\ u.grainStrength > 0 /\ out.pre # out.avg /\ out.mapped # out.pre


\* ------------------------------------------------- claims about getGlow
\* the march starts at 0.5 plus a dither in [0, 0.2), and a march whose start
\* lies beyond its end takes no sample
C20_Start ==
    /\ (pc = "glowloop" /\ gl.i = 0 /\ ~gl.brk) => (gl.t >= HALF /\ gl.t < HALF + 200000)
    /\ gl # NoGlow =>
           /\ gl.t - 150000 * gl.evals >= HALF
           /\ gl.t - 150000 * gl.evals > gl.maxT => gl.evals = 0

\* a pass that takes a sample takes it at 0.5 <= t <= min(maxT, 15.0) and moves
\* t on by 0.15
C20_SampleStep ==
    gl'.evals = gl.evals + 1 =>
        /\ gl.t >= HALF /\ gl.t <= gl.maxT /\ gl.t <= 15 * ONE
        /\ gl'.t = gl.t + 150000

\* C20: every point sampled by the arc march lies at a distance t with
\* 0.5 <= t <= min(primary distance, 15.0); the march starts at 0.5 plus a
\* dither in [0, 0.2), advances by 0.15 per sample, and takes no sample when
\* the primary distance is below its start.
C20_ArcMarchRange == [](C20_Start) /\ [][C20_SampleStep]_vars

C20_Witness ==
    /\ gl.brk /\ gl.evals >= 2 /\ gl.maxT < 15 * ONE /\ gl.t > gl.maxT
    /\ gl.t - 150000 * gl.evals > HALF


\* ------------------------------------------ claims about the shadowed light
\* C21: in an evaluation of renderPBR exactly one pass of the light loop calls
\* getShadow, the pass of the first (key) light, which is weighted by the value
\* returned; the second and third lights are weighted by shadow factor 1, and
\* the sum of the three passes is the Lo that renderPBR returns with the ambient
\* term.
C21_Marches(casts) == Cardinality({j \in DOMAIN casts : casts[j].marched})

C21_KeyLightShadowed ==
    /\ \A j \in DOMAIN li.casts :
           /\ li.casts[j].marched <=> j = 1
           /\ j = 1 => li.casts[j].shadow = li.shadow
           /\ j > 1 => li.casts[j].shadow = ONE
    /\ Len(li.casts) >= 1 => C21_Marches(li.casts) = 1
    /\ pc = "light" /\ li.i = 4 /\ (\A k \in 1..3 : lightDist(k, li.p) # 0) =>
           VAdd(li.Lo, ambient(li.n, li.v, li.baseColor, li.metallic, li.roughness, ONE,
                               li.F0))
               = renderPBR(li.p, li.n, li.v, li.baseColor, li.metallic, li.roughness,
                           ONE, li.shadow)

C21_Witness ==
    /\ pc = "light" /\ li.i = 4 /\ Len(li.casts) = 3
    /\ li.shadow = 400000
    /\ li.casts[1].marched /\ li.casts[1].shadow = 400000
    /\ li.casts[3].shadow = ONE
    /\ li.Lo # <<0, 0, 0>>

\* ------------------------------------------------ claims about the material
\* C22: when renderPBR is called for a Fractal hit, the albedo is the base
\* colour blended toward the accent (0.8, 0.7, 0.5) by the curvature factor
\* clamp(1 - ao, 0, 1), the factor of the roughness and metallic blends; for a
\* Floor hit the metallic handed to renderPBR is 0 whatever the metallic
\* parameter is.
C22_FloorMetallicZero ==
    pc = "shadow" /\ fs.m > FLOOR - HALF => fs.metallic = 0 /\ fs.pbrIn.metallic = 0

C22_AlbedoByCurvature ==
    /\ C22_FloorMetallicZero
    /\ pc = "shadow" /\ fs.m < FLOOR - HALF =>
           fs.albedo = VMix(u.baseColor, <<800000, 700000, 500000>>,
                            Clamp(ONE - fs.ao, 0, ONE))

\* ---------------------------------------------- claims about compositing
\* C23: per sample the order is fixed.  A primary miss leaves col = sky * 0.05 and
\* goes straight to the glow test, with no call of renderPBR and no fog; fog is
\* entered only on a hit, after lighting and after the reflection pass has
\* ended, and blends col by the distance of the primary hit; the glow test
\* follows the fog step or the miss and nothing else, runs getGlow exactly when
\* electricIntensity > 0.01, and its result is added to col as the fog (or the
\* miss) left it.
C23_Step ==
    /\ pc = "shade" /\ rm.res[3] <= HALF =>
           /\ pc' = "glow"
           /\ fs'.col = VScale(getSky(fs.rd), 50000)
           /\ fs'.calls = fs.calls
    /\ pc = "shade" /\ rm.res[3] > HALF => pc' = "ao"
    /\ fs'.calls # fs.calls => pc \in {"material", "rlight"} /\ fs.hit > HALF
    /\ pc' = "fog" /\ pc # "fog" =>
           /\ pc \in {"pbr", "reflected", "rpbr"}
           /\ fs.hit > HALF /\ fs.calls >= 1
    /\ pc = "fog" => pc' = "glow" /\ fs'.col = fog(fs.col, fs.t) /\ fs'.calls = fs.calls
    /\ pc' = "glow" /\ pc # "glow" => pc = "fog" \/ (pc = "shade" /\ rm.res[3] <= HALF)
    /\ pc = "glow" =>
           /\ fs'.preGlow = fs.col /\ fs'.col = fs.col
           /\ pc' = IF u.electricIntensity > 10000 THEN "glowloop" ELSE "accum"
    /\ pc = "glowloop" => pc' \in {"glowloop", "accum"}
    /\ pc = "glowloop" /\ pc' = "accum" => fs'.col = VAdd(fs.preGlow, gl'.acc)
    /\ pc' = "accum" /\ pc # "accum" => pc \in {"glow", "glowloop"}

C23_CompositingOrder == [][C23_Step]_vars

C23_Witness ==
    /\ pc = "accum" /\ fs.hit > HALF /\ fs.calls >= 1
    /\ fs.glowRan /\ fs.col # fs.preGlow
    /\ fs.cols # <<>>

\* ------------------------------------------------ claims about the KIFS fold
\* C24: in each of the 4 passes of the fold loop, the vector left by the abs
\* step and the three conditional swaps holds the absolute values of the
\* components the pass started from, rearranged in descending order
\* (x >= y >= z >= 0); when the loop has ended the accumulated scale is 16 and
\* the folded point is the one sdFractal measures.
C24_Orders ==
    {<<1, 2, 3>>, <<1, 3, 2>>, <<2, 1, 3>>, <<2, 3, 1>>, <<3, 1, 2>>, <<3, 2, 1>>}

C24_SortedAbs(in, sorted) ==
    /\ sorted[1] >= sorted[2] /\ sorted[2] >= sorted[3] /\ sorted[3] >= 0
    /\ \E o \in C24_Orders :
           sorted = <<Abs(in[o[1]]), Abs(in[o[2]]), Abs(in[o[3]])>>

C24_FoldSorts ==
    /\ Len(fold.ins) = fold.i /\ Len(fold.sorts) = fold.i /\ fold.i <= FOLD_ITER
    /\ \A j \in DOMAIN fold.sorts : C24_SortedAbs(fold.ins[j], fold.sorts[j])
    /\ pc = "fold" /\ ~foldLoops(fold) =>
           /\ fold.st.scale = 16
           /\ fold.st = foldLoop(u, foldEnter(fold.ins[1]).st, 0)

\* a loop that ended after a pass in which all three swaps exchanged components
C24_Witness ==
    /\ pc = "fold" /\ fold.i = FOLD_ITER /\ fold.st.scale = 16
    /\ \E j \in DOMAIN fold.ins :
           /\ Abs(fold.ins[j][1]) < Abs(fold.ins[j][2])
           /\ Abs(fold.ins[j][2]) < Abs(fold.ins[j][3])
           /\ fold.sorts[j] = <<Abs(fold.ins[j][3]), Abs(fold.ins[j][2]), Abs(fold.ins[j][1])>>
    /\ \E j \in DOMAIN fold.ins : fold.ins[j][1] < 0 /\ fold.ins[j][3] < 0

\* ------------------------------------------- claims about compilePipeline
\* C26: when every compilation has finished and the compilation of the most
\* recent shaderCode succeeded, the pipeline in pipelineRef is the one built
\* from the most recent shaderCode, in whatever order the results resolved.
C26_LatestPipeline ==
    (compiles = {} /\ comp.shaderCode \in comp.okCodes) => comp.built = comp.shaderCode

\* C27: a call of compilePipeline whose compilation info holds a message of
\* type error leaves pipelineRef, bindGroupRef and every other ref as they
\* were and creates nothing, does not clear the displayed error or the error
\* flag, and has called onError once for each message of type error, in
\* order, with the message, the line number and the position of each.
C27_ErrorStep ==
    /\ \E t \in compiles : t.pc = "info" /\ t \notin compiles'
    /\ \E i \in DOMAIN comp'.info : comp'.info[i].type = "error"

C27_Reported(info, reports) ==
    /\ Len(reports) = Cardinality({i \in DOMAIN info : info[i].type = "error"})
    /\ \A j \in DOMAIN reports :
           /\ reports[j].type = "compilation"
           /\ \E i \in DOMAIN info :
                  /\ info[i].type = "error"
                  /\ Cardinality({k \in 1..i : info[k].type = "error"}) = j
                  /\ reports[j].message = info[i].message
                  /\ reports[j].lineNum = info[i].lineNum
                  /\ reports[j].linePos = info[i].linePos

C27_ErrorKeepsPipeline ==
    [][C27_ErrorStep =>
          /\ refs' = refs /\ gpu' = gpu /\ comp'.built = comp.built
          /\ comp'.overlay # "none"
          /\ comp'.errorReported = comp.errorReported
          /\ compiles' \subseteq compiles
          /\ C27_Reported(comp'.info, comp'.reports)]_vars

\* the second edit failed with two errors while the pipeline of the first
\* edit stays in pipelineRef
C27_Witness ==
    /\ comp.overlay = "compilation" /\ Len(comp.reports) = 2 /\ Len(comp.info) = 3
    /\ comp.reports[2].lineNum = 12 /\ comp.reports[2].linePos = 1
    /\ compiles = {} /\ comp.shaderCode = 2 /\ comp.built = 1
    /\ refs.pipeline # 0 /\ refs.bindGroup # 0

\* ------------------------------------------- claims about the render loop
\* C25: once render has returned on the error flag and a later compilation has
\* succeeded and cleared the flag, the loop runs again: a frame is requested.
C25_LoopResumes ==
    (comp.mounted /\ comp.halted /\ ~comp.errorReported) => comp.request

\* C28: once the component is unmounted no frame is requested with
\* requestAnimationFrame, so that none is executed, wherever initWebGPU stood
\* when the cleanup ran.
C28_NoFrameAfterUnmount == ~comp.mounted => ~comp.request

\* C29: a capture() request starts exactly one toBlob export, however many
\* frames are rendered before the callback of toBlob runs, and
\* capturePendingRef is 0 once the callbacks have run.
C29_OneExportPerCapture ==
    /\ ui.exports <= 1
    /\ ui.blobs <= 1
    /\ (ui.exports = 1 /\ ui.blobs = 0) => ui.capturePending = 0

\* ------------------------------------------ claims about the orbit controls
\* C30: after any sequence of mouse-down, mouse-move, mouse-up or mouse-leave
\* and wheel events the radius of the orbit camera is within [2.0, 20.0] and
\* its phi within [0.1, PI - 0.1], and theta and phi change only in a
\* mouse-move that follows a mouse-down with no mouse-up or mouse-leave
\* between them.  Held tells that from the events alone.
RECURSIVE C30_Held(_)
C30_Held(events) ==
    IF events = <<>> THEN FALSE
    ELSE IF events[Len(events)] = "down" THEN TRUE
    ELSE IF events[Len(events)] = "up" THEN FALSE
    ELSE C30_Held(SubSeq(events, 1, Len(events) - 1))

C30_InRange ==
    /\ ui.camera.radius >= 2 * ONE /\ ui.camera.radius <= 20 * ONE
    /\ ui.camera.phi >= 100000 /\ ui.camera.phi <= PI - 100000

C30_TurnsOnlyInDrag ==
    (ui'.camera.theta # ui.camera.theta \/ ui'.camera.phi # ui.camera.phi) =>
        /\ ui'.events = Append(ui.events, "move")
        /\ C30_Held(ui.events)

C30_OrbitCamera == [](C30_InRange) /\ [][C30_TurnsOnlyInDrag]_vars

\* the wheel has pushed the radius to 20, and a drag has turned the camera and
\* pushed phi to its upper limit before the button was released
C30_Witness ==
    /\ ui.events = <<"wheel", "down", "move", "up">>
    /\ ui.camera.radius = 20 * ONE /\ ui.camera.phi = PI - 100000
    /\ ui.camera.theta # HALF /\ ~ui.camera.isDragging
====
